---- MODULE Spec2Model ----
(***************************************************************************)
(* A model of BSocket (trunk/system/BSocket.c), POSIX backend: one socket  *)
(* object, its handler table, its event mask, its connect state machine    *)
(* and the dispatcher that the reactor calls on readiness.                 *)
(*                                                                         *)
(* A user handler is code outside the socket: while a handler runs (pc is  *)
(* not "idle") it may make any API call on the socket, so the dispatcher   *)
(* is cut at each handler invocation: file_descriptor_handler runs up to   *)
(* the first invocation, HandlerReturn runs from the return of a handler   *)
(* up to the next invocation or to the end of call_handlers.               *)
(***************************************************************************)
EXTENDS Integers, Sequences, FiniteSets, TLC

VARIABLES
    alive,              \* the BSocket object is initialised and not freed
    type,               \* bs->type
    have_pktinfo,       \* bs->have_pktinfo
    global_handler,     \* bs->global_handler != NULL
    handlers,           \* handlers[i] is TRUE iff bs->handlers[i] != NULL
    waitEvents,         \* bs->waitEvents, as a set of socket events
    connecting_status,  \* bs->connecting_status
    connecting_result,  \* bs->connecting_result
    error,              \* bs->error
    recv_max,           \* bs->recv_max
    recv_num,           \* bs->recv_num
    dead,               \* bs->dead: "NULL" or "local" (points to badvpn__dead)
    reactor_events,     \* events the reactor watches the descriptor for
    pc,                 \* "idle", the handler that is running, or "aborted"
    returned_events,    \* local of file_descriptor_handler / call_handlers
    badvpn__dead,       \* the dispatcher's local liveness flag
    fault,              \* "none", or how the process aborted
    ret,                \* return value of the last int-returning call
    log,                \* handler invocations of the current dispatch
    freed,              \* BSocket_Free was called since the dispatch began
    touched,            \* the dispatcher used the socket after it was freed
    connect_ret,        \* what BSocket_GetConnectResult returned, if it ran last
    recv_calls,         \* receive calls made since recv_num was last reset
    os_call,            \* OS primitive that the call of the last step reached
    fdinfo,             \* descriptor that the call of the last step obtained
    msg,                \* last step: the message handed to or filled by the OS,
                        \* and the caller's addr / local_addr after the call
    file                \* the file_open statement: struct open_instance, the
                        \* state of its statements and the calls of the last step

bvars == <<alive, type, have_pktinfo, global_handler, handlers, waitEvents,
           connecting_status, connecting_result, error, recv_max, recv_num,
           dead, reactor_events, pc, returned_events, badvpn__dead,
           fault, ret, log, freed, touched, connect_ret, recv_calls, os_call,
           fdinfo, msg>>

vars == <<alive, type, have_pktinfo, global_handler, handlers, waitEvents,
          connecting_status, connecting_result, error, recv_max, recv_num,
          dead, reactor_events, pc, returned_events, badvpn__dead,
          fault, ret, log, freed, touched, connect_ret, recv_calls, os_call,
          fdinfo, msg, file>>

(***************************************************************************)
(* Constants of the program.                                               *)
(***************************************************************************)
HANDLER_READ == 0
HANDLER_WRITE == 1
HANDLER_ACCEPT == 2
HANDLER_CONNECT == 3

BSOCKET_READ == "READ"
BSOCKET_WRITE == "WRITE"
BSOCKET_ACCEPT == "ACCEPT"
BSOCKET_CONNECT == "CONNECT"

SocketEvents == {BSOCKET_READ, BSOCKET_WRITE, BSOCKET_ACCEPT, BSOCKET_CONNECT}

BREACTOR_READ == "R"
BREACTOR_WRITE == "W"

BSOCKET_TYPE_STREAM == "STREAM"
BSOCKET_TYPE_DGRAM == "DGRAM"

BADDR_TYPE_IPV4 == "IPV4"
BADDR_TYPE_IPV6 == "IPV6"

BSOCKET_ERROR_NONE == "NONE"
BSOCKET_ERROR_UNKNOWN == "UNKNOWN"
BSOCKET_ERROR_IN_PROGRESS == "IN_PROGRESS"
BSOCKET_ERROR_CONNECTION_TIMED_OUT == "CONNECTION_TIMED_OUT"
BSOCKET_ERROR_CONNECTION_REFUSED == "CONNECTION_REFUSED"
BSOCKET_ERROR_LATER == "LATER"
BSOCKET_ERROR_CONNECTION_RESET == "CONNECTION_RESET"
BSOCKET_ERROR_ADDRESS_NOT_AVAILABLE == "ADDRESS_NOT_AVAILABLE"
BSOCKET_ERROR_ADDRESS_IN_USE == "ADDRESS_IN_USE"
BSOCKET_ERROR_ACCESS_DENIED == "ACCESS_DENIED"

BSOCKET_DEFAULT_RECV_MAX == 2

(***************************************************************************)
(* Inputs.                                                                 *)
(***************************************************************************)
\* errno of connect(): success, EINPROGRESS, anything else
ConnectOutcomes == {"OK", "EINPROGRESS", "EOTHER"}

\* value of SO_ERROR read when the connection attempt has ended
SoErrors == {"0", "ETIMEDOUT", "ECONNREFUSED", "EOTHER"}

\* how far BSocket_Init gets
InitOutcomes == {"socket_fail", "nonblock_fail", "backend_fail", "ok"}

\* socket types BSocket_Init accepts
InitTypes == {BSOCKET_TYPE_STREAM, BSOCKET_TYPE_DGRAM}

\* largest positive quota given to BSocket_SetRecvMax
MaxRecvMax == 2

\* receive calls counted between two resets of the quota
MaxRecvCalls == 4

\* largest byte count a transfer reports
MaxBytes == 1

\* errno (WSAGetLastError) of a send or receive primitive
TransferErrors == {"OK", "EAGAIN", "ECONNREFUSED", "ECONNRESET", "EOTHER"}

\* errno of bind(), listen(), accept() and getpeername()
BindErrors == {"OK", "EADDRNOTAVAIL", "EADDRINUSE", "EACCES", "EOTHER"}
ListenErrors == {"OK", "EADDRINUSE", "EOTHER"}
AcceptErrors == {"OK", "EAGAIN", "EOTHER"}
PeerNameErrors == {"OK", "EOTHER"}

\* how far BSocket_Accept gets with the descriptor accept() returned
AcceptOutcomes == {"nonblock_fail", "backend_fail", "ok"}

(***************************************************************************)
(* Pure helpers.                                                           *)
(***************************************************************************)
get_event_index(event) ==
    CASE event = BSOCKET_READ -> HANDLER_READ
      [] event = BSOCKET_WRITE -> HANDLER_WRITE
      [] event = BSOCKET_ACCEPT -> HANDLER_ACCEPT
      [] event = BSOCKET_CONNECT -> HANDLER_CONNECT

\* the event whose handler call_handlers invokes at its i-th test
EventAt(i) ==
    CASE i = HANDLER_READ -> BSOCKET_READ
      [] i = HANDLER_WRITE -> BSOCKET_WRITE
      [] i = HANDLER_ACCEPT -> BSOCKET_ACCEPT
      [] i = HANDLER_CONNECT -> BSOCKET_CONNECT

\* variant: CONNECT does not ask the reactor for writability
get_reactor_fd_events_NoConnect(sock_events) ==
    (IF BSOCKET_READ \in sock_events \/ BSOCKET_ACCEPT \in sock_events
        THEN {BREACTOR_READ} ELSE {})
    \cup
    (IF BSOCKET_WRITE \in sock_events
        THEN {BREACTOR_WRITE} ELSE {})

get_reactor_fd_events(sock_events) ==
    (IF BSOCKET_READ \in sock_events \/ BSOCKET_ACCEPT \in sock_events
        THEN {BREACTOR_READ} ELSE {})
    \cup
    (IF BSOCKET_WRITE \in sock_events \/ BSOCKET_CONNECT \in sock_events
        THEN {BREACTOR_WRITE} ELSE {})

\* network events of WSAEnumNetworkEvents (winsock2.h)
FD_READ == "FD_READ"
FD_WRITE == "FD_WRITE"
FD_ACCEPT == "FD_ACCEPT"
FD_CONNECT == "FD_CONNECT"
FD_CLOSE == "FD_CLOSE"

get_wsa_events(sock_events) ==
    (IF BSOCKET_READ \in sock_events THEN {FD_READ, FD_CLOSE} ELSE {})
    \cup
    (IF BSOCKET_WRITE \in sock_events THEN {FD_WRITE, FD_CLOSE} ELSE {})
    \cup
    (IF BSOCKET_ACCEPT \in sock_events THEN {FD_ACCEPT} ELSE {})
    \cup
    (IF BSOCKET_CONNECT \in sock_events THEN {FD_CONNECT} ELSE {})

\* the switch on SO_ERROR in file_descriptor_handler
connect_result_of(result) ==
    CASE result = "0" -> BSOCKET_ERROR_NONE
      [] result = "ETIMEDOUT" -> BSOCKET_ERROR_CONNECTION_TIMED_OUT
      [] result = "ECONNREFUSED" -> BSOCKET_ERROR_CONNECTION_REFUSED
      [] OTHER -> BSOCKET_ERROR_UNKNOWN

\* variant: the notification is translated without looking at waitEvents
ReturnedEvents_Unmasked(wait, events) ==
    (IF BREACTOR_READ \in events
        THEN {BSOCKET_READ, BSOCKET_ACCEPT} ELSE {})
    \cup
    (IF BREACTOR_WRITE \in events
        THEN {BSOCKET_WRITE, BSOCKET_CONNECT} ELSE {})

\* the events file_descriptor_handler hands to call_handlers
ReturnedEvents(wait, events) ==
    (IF BSOCKET_READ \in wait /\ BREACTOR_READ \in events
        THEN {BSOCKET_READ} ELSE {})
    \cup
    (IF BSOCKET_WRITE \in wait /\ BREACTOR_WRITE \in events
        THEN {BSOCKET_WRITE} ELSE {})
    \cup
    (IF BSOCKET_ACCEPT \in wait /\ BREACTOR_READ \in events
        THEN {BSOCKET_ACCEPT} ELSE {})
    \cup
    (IF BSOCKET_CONNECT \in wait /\ BREACTOR_WRITE \in events
        THEN {BSOCKET_CONNECT} ELSE {})

\* the switch on iErrorCode[FD_CONNECT_BIT] in handle_handler
wsa_connect_result_of(code) ==
    CASE code = "0" -> BSOCKET_ERROR_NONE
      [] code = "WSAETIMEDOUT" -> BSOCKET_ERROR_CONNECTION_TIMED_OUT
      [] code = "WSAECONNREFUSED" -> BSOCKET_ERROR_CONNECTION_REFUSED
      [] OTHER -> BSOCKET_ERROR_UNKNOWN

\* the events handle_handler hands to call_handlers
WsaReturnedEvents(wait, lNetworkEvents) ==
    (IF /\ BSOCKET_READ \in wait
        /\ (FD_READ \in lNetworkEvents \/ FD_CLOSE \in lNetworkEvents)
        THEN {BSOCKET_READ} ELSE {})
    \cup
    (IF /\ BSOCKET_WRITE \in wait
        /\ (FD_WRITE \in lNetworkEvents \/ FD_CLOSE \in lNetworkEvents)
        THEN {BSOCKET_WRITE} ELSE {})
    \cup
    (IF BSOCKET_ACCEPT \in wait /\ FD_ACCEPT \in lNetworkEvents
        THEN {BSOCKET_ACCEPT} ELSE {})
    \cup
    (IF BSOCKET_CONNECT \in wait /\ FD_CONNECT \in lNetworkEvents
        THEN {BSOCKET_CONNECT} ELSE {})

\* events that BSocket_EnableEvent asserts not to be enabled with event
Incompatible(event) ==
    CASE event \in {BSOCKET_READ, BSOCKET_WRITE} ->
            {BSOCKET_ACCEPT, BSOCKET_CONNECT}
      [] event = BSOCKET_ACCEPT ->
            {BSOCKET_READ, BSOCKET_WRITE, BSOCKET_CONNECT}
      [] event = BSOCKET_CONNECT ->
            {BSOCKET_READ, BSOCKET_WRITE, BSOCKET_ACCEPT}

(***************************************************************************)
(* Addresses and ancillary data.  An IP is the byte string the structures  *)
(* hold (network order): 4 bytes for IPv4, 16 for IPv6; a port is the      *)
(* 16-bit value as stored.                                                 *)
(***************************************************************************)
BADDR_TYPE_NONE == "NONE"
AF_INET == "AF_INET"
AF_INET6 == "AF_INET6"
IPPROTO_IP == "IPPROTO_IP"
IPPROTO_IPV6 == "IPPROTO_IPV6"
IP_PKTINFO == "IP_PKTINFO"
IPV6_PKTINFO == "IPV6_PKTINFO"

sizeof_sockaddr_in == 16
sizeof_sockaddr_in6 == 28
sizeof_cmsghdr == 16
\* struct in_pktinfo has no ipi_spec_dst member on Windows
sizeof_in_pktinfo(winapi) == IF winapi THEN 8 ELSE 12
sizeof_in6_pktinfo == 20

CMSG_ALIGN(len) == ((len + 7) \div 8) * 8
CMSG_SPACE(len) == CMSG_ALIGN(sizeof_cmsghdr) + CMSG_ALIGN(len)
CMSG_LEN(len) == CMSG_ALIGN(sizeof_cmsghdr) + len

Zero4 == <<0, 0, 0, 0>>

\* sample values of the inputs
Ipv4Values == {<<127, 0, 0, 1>>, <<10, 0, 0, 2>>}
Ipv6Loopback == [i \in 1..16 |-> IF i = 16 THEN 1 ELSE 0]
Ipv6Other == [i \in 1..16 |-> IF i = 1 THEN 254 ELSE i]
Ipv6Values == {Ipv6Loopback, Ipv6Other}

\* BIPAddr
BIPAddr_InitInvalid == [type |-> BADDR_TYPE_NONE, ip |-> <<>>]
BIPAddr_InitIPv4(ip) == [type |-> BADDR_TYPE_IPV4, ip |-> ip]
BIPAddr_InitIPv6(ip) == [type |-> BADDR_TYPE_IPV6, ip |-> ip]

\* BAddr
BAddr_Values ==
    {[type |-> BADDR_TYPE_IPV4, ip |-> <<127, 0, 0, 1>>, port |-> 53],
     [type |-> BADDR_TYPE_IPV4, ip |-> <<10, 0, 0, 2>>, port |-> 65535],
     [type |-> BADDR_TYPE_IPV6, ip |-> Ipv6Loopback, port |-> 65535],
     [type |-> BADDR_TYPE_IPV6, ip |-> Ipv6Other, port |-> 53]}

BIPAddr_Values ==
    {BIPAddr_InitInvalid}
    \cup {BIPAddr_InitIPv4(ip) : ip \in Ipv4Values}
    \cup {BIPAddr_InitIPv6(ip) : ip \in Ipv6Values}

\* a caller's object that the call did not write
Unwritten == [type |-> "unwritten"]

\* struct sys_addr: the sockaddr with its length; sin_zero stands under
\* flowinfo and scope_id for an IPv4 address
NoSysAddr ==
    [len |-> 0, sa_family |-> "AF_UNSPEC", port |-> 0, addr |-> <<>>,
     flowinfo |-> 0, scope_id |-> 0]

\* what a conversion yields when one of its ASSERTs fails in a debug build:
\* the process ends inside the call
Aborted == [type |-> "aborted"]

\* A local struct sys_addr holds, before addr_socket_to_sys, whatever the
\* stack held.  The calls that declare one take that content as their input
\* remote_sysaddr and are defined for any content.  The specifications pass
\* addresses of type IPV4 or IPV6 only (the ASSERT(0) of the default arm is
\* the precondition on the caller's address), for which the conversion
\* overwrites the content whole; they draw the content from these samples.
MaxStack == 0
UninitSysAddrs ==
    {[len |-> n, sa_family |-> "AF_UNSPEC", port |-> n, addr |-> <<>>,
      flowinfo |-> n, scope_id |-> n] : n \in 0..MaxStack}

\* *out after the call, out being what it held before; ndebug says whether
\* ASSERT is compiled out.  The default arm writes nothing.
addr_socket_to_sys(out, addr, ndebug) ==
    CASE addr.type = BADDR_TYPE_IPV4 ->
           [len |-> sizeof_sockaddr_in, sa_family |-> AF_INET,
            port |-> addr.port, addr |-> addr.ip,
            flowinfo |-> 0, scope_id |-> 0]
      [] addr.type = BADDR_TYPE_IPV6 ->
           [len |-> sizeof_sockaddr_in6, sa_family |-> AF_INET6,
            port |-> addr.port, flowinfo |-> 0, addr |-> addr.ip,
            scope_id |-> 0]
      [] OTHER -> IF ndebug THEN out ELSE Aborted

\* the sockaddr of an IPv4 or IPv6 address: both arms write the whole of
\* *out in every build
SysAddrOf(addr) == addr_socket_to_sys(NoSysAddr, addr, FALSE)

\* variant: the port is not copied back
addr_sys_to_socket_NoPort(out, addr, ndebug) ==
    CASE addr.sa_family = AF_INET ->
           IF ~ndebug /\ addr.len # sizeof_sockaddr_in
             THEN Aborted
             ELSE [type |-> BADDR_TYPE_IPV4, ip |-> addr.addr, port |-> 0]
      [] addr.sa_family = AF_INET6 ->
           IF ~ndebug /\ addr.len # sizeof_sockaddr_in6
             THEN Aborted
             ELSE [type |-> BADDR_TYPE_IPV6, ip |-> addr.addr,
                   port |-> addr.port]
      [] OTHER -> IF ndebug THEN out ELSE Aborted

\* *out after the call, out being what it held before.  The switch is on
\* the family alone; the length is only ASSERTed, and the default arm
\* writes nothing.
addr_sys_to_socket(out, addr, ndebug) ==
    CASE addr.sa_family = AF_INET ->
           IF ~ndebug /\ addr.len # sizeof_sockaddr_in
             THEN Aborted
             ELSE [type |-> BADDR_TYPE_IPV4, ip |-> addr.addr,
                   port |-> addr.port]
      [] addr.sa_family = AF_INET6 ->
           IF ~ndebug /\ addr.len # sizeof_sockaddr_in6
             THEN Aborted
             ELSE [type |-> BADDR_TYPE_IPV6, ip |-> addr.addr,
                   port |-> addr.port]
      [] OTHER -> IF ndebug THEN out ELSE Aborted

\* what a caller's local sysaddr, holding out, holds after
\* addr_socket_to_sys, over the builds
SysAddrOutcomes(out, addr) ==
    {addr_socket_to_sys(out, addr, ndebug) : ndebug \in BOOLEAN}

\* what the caller's addr holds after addr_sys_to_socket, over the builds
BAddrOutcomes(name) ==
    {addr_sys_to_socket(Unwritten, name, ndebug) : ndebug \in BOOLEAN}

\* struct in_pktinfo and struct in6_pktinfo after memset(cmsg, 0, ...); on
\* Windows ipi_spec_dst does not exist and stays zero here
in_pktinfo(ipi_spec_dst, ipi_addr) ==
    [ipi_ifindex |-> 0, ipi_spec_dst |-> ipi_spec_dst, ipi_addr |-> ipi_addr]
in6_pktinfo(ipi6_addr) ==
    [ipi6_addr |-> ipi6_addr, ipi6_ifindex |-> 0]

cmsghdr(level, t, len, data) ==
    [cmsg_level |-> level, cmsg_type |-> t, cmsg_len |-> len, data |-> data]

\* union cdata of BSocket_SendToFrom and BSocket_RecvFromTo
sizeof_cdata(winapi) ==
    IF CMSG_SPACE(sizeof_in_pktinfo(winapi)) > CMSG_SPACE(sizeof_in6_pktinfo)
      THEN CMSG_SPACE(sizeof_in_pktinfo(winapi))
      ELSE CMSG_SPACE(sizeof_in6_pktinfo)

\* variant: msg_controllen stays at the size of the whole buffer
SendControl_WholeBuffer(local_addr, winapi) ==
    CASE local_addr.type = BADDR_TYPE_NONE ->
           [control |-> <<>>, controllen |-> sizeof_cdata(winapi)]
      [] local_addr.type = BADDR_TYPE_IPV4 ->
           [control |->
              <<cmsghdr(IPPROTO_IP, IP_PKTINFO,
                        CMSG_LEN(sizeof_in_pktinfo(winapi)),
                        IF winapi
                          THEN in_pktinfo(Zero4, local_addr.ip)
                          ELSE in_pktinfo(local_addr.ip, Zero4))>>,
            controllen |-> sizeof_cdata(winapi)]
      [] local_addr.type = BADDR_TYPE_IPV6 ->
           [control |->
              <<cmsghdr(IPPROTO_IPV6, IPV6_PKTINFO,
                        CMSG_LEN(sizeof_in6_pktinfo),
                        in6_pktinfo(local_addr.ip))>>,
            controllen |-> sizeof_cdata(winapi)]

\* the control part of the message BSocket_SendToFrom builds: the records
\* and msg_controllen (the variable sum)
SendControl(local_addr, winapi) ==
    CASE local_addr.type = BADDR_TYPE_NONE ->
           [control |-> <<>>, controllen |-> 0]
      [] local_addr.type = BADDR_TYPE_IPV4 ->
           [control |->
              <<cmsghdr(IPPROTO_IP, IP_PKTINFO,
                        CMSG_LEN(sizeof_in_pktinfo(winapi)),
                        IF winapi
                          THEN in_pktinfo(Zero4, local_addr.ip)
                          ELSE in_pktinfo(local_addr.ip, Zero4))>>,
            controllen |-> 0 + CMSG_SPACE(sizeof_in_pktinfo(winapi))]
      [] local_addr.type = BADDR_TYPE_IPV6 ->
           [control |->
              <<cmsghdr(IPPROTO_IPV6, IPV6_PKTINFO,
                        CMSG_LEN(sizeof_in6_pktinfo),
                        in6_pktinfo(local_addr.ip))>>,
            controllen |-> 0 + CMSG_SPACE(sizeof_in6_pktinfo)]

\* variant: the local address of the packet is read instead of ipi_addr
RECURSIVE RecvControl_SpecDst(_, _)
RecvControl_SpecDst(control, local_addr) ==
    IF control = <<>>
      THEN local_addr
      ELSE LET cmsg == Head(control) IN
           RecvControl_SpecDst(Tail(control),
             IF cmsg.cmsg_level = IPPROTO_IP /\ cmsg.cmsg_type = IP_PKTINFO
               THEN BIPAddr_InitIPv4(cmsg.data.ipi_spec_dst)
               ELSE IF cmsg.cmsg_level = IPPROTO_IPV6
                       /\ cmsg.cmsg_type = IPV6_PKTINFO
                 THEN BIPAddr_InitIPv6(cmsg.data.ipi6_addr)
                 ELSE local_addr)

\* the loop of BSocket_RecvFromTo over the received control records,
\* starting from BIPAddr_InitInvalid
RECURSIVE RecvControl(_, _)
RecvControl(control, local_addr) ==
    IF control = <<>>
      THEN local_addr
      ELSE LET cmsg == Head(control) IN
           RecvControl(Tail(control),
             IF cmsg.cmsg_level = IPPROTO_IP /\ cmsg.cmsg_type = IP_PKTINFO
               THEN BIPAddr_InitIPv4(cmsg.data.ipi_addr)
               ELSE IF cmsg.cmsg_level = IPPROTO_IPV6
                       /\ cmsg.cmsg_type = IPV6_PKTINFO
                 THEN BIPAddr_InitIPv6(cmsg.data.ipi6_addr)
                 ELSE local_addr)

NoMsg ==
    [name |-> NoSysAddr, control |-> <<>>, controllen |-> 0,
     addr |-> Unwritten, local_addr |-> Unwritten]

\* the space a sequence of control records takes in a control buffer
RECURSIVE ControlSpace(_)
ControlSpace(control) ==
    IF control = <<>>
      THEN 0
      ELSE CMSG_ALIGN(Head(control).cmsg_len) + ControlSpace(Tail(control))

\* control records the OS may deliver: the two PKTINFO records, and
\* records of another level or type (a TTL, the PKTINFO type number under
\* the wrong level)
RecvCmsgs(winapi) ==
    {cmsghdr(IPPROTO_IP, IP_PKTINFO, CMSG_LEN(sizeof_in_pktinfo(winapi)),
             in_pktinfo(IF winapi THEN Zero4 ELSE spec_dst, dst)) :
        spec_dst \in Ipv4Values, dst \in Ipv4Values}
    \cup {cmsghdr(IPPROTO_IPV6, IPV6_PKTINFO, CMSG_LEN(sizeof_in6_pktinfo),
                  in6_pktinfo(dst)) : dst \in Ipv6Values}
    \cup {cmsghdr(IPPROTO_IP, "IP_TTL", CMSG_LEN(4), [ttl |-> 64]),
          cmsghdr("SOL_SOCKET", IP_PKTINFO, CMSG_LEN(0), <<>>)}

MaxRecords == 2

RecvControls(winapi) ==
    {control \in UNION {[1..n -> RecvCmsgs(winapi)] : n \in 0..MaxRecords} :
        ControlSpace(control) <= sizeof_cdata(winapi)}

\* names the OS may report for a datagram
RecvNames == {SysAddrOf(a) : a \in BAddr_Values}

\* the address the specifications about errors and quotas pass to the calls
IoAddr == [type |-> BADDR_TYPE_IPV4, ip |-> <<127, 0, 0, 1>>, port |-> 53]

\* a descriptor as socket() or accept() returns it
NewFd ==
    [created |-> TRUE, nonblocking |-> FALSE, registered |-> FALSE,
     closes |-> 0, owner |-> "none", trace |-> <<>>, have_pktinfo |-> FALSE]

close_socket(fd) ==
    [fd EXCEPT !.closes = @ + 1, !.trace = Append(@, "close_socket")]

\* the registration of the descriptor is taken out of the reactor
free_event_backend(fd) ==
    [fd EXCEPT !.registered = FALSE,
               !.trace = Append(@, "free_event_backend")]

\* set non-blocking, stored in the socket and registered with the reactor
OwnedFd(owner) ==
    [NewFd EXCEPT !.nonblocking = TRUE, !.registered = TRUE, !.owner = owner]

\* closed on a failure path, before or after it was set non-blocking
ClosedFd(nonblocking) ==
    close_socket([NewFd EXCEPT !.nonblocking = nonblocking])

\* socket() or accept() failed
NoFd ==
    [created |-> FALSE, nonblocking |-> FALSE, registered |-> FALSE,
     closes |-> 0, owner |-> "none", trace |-> <<>>, have_pktinfo |-> FALSE]

(***************************************************************************)
(* file_open.  A string is the sequence of its characters.  file.inst is   *)
(* the file_open statement ("none" before it is created, "up", "dead"),    *)
(* file.fh is o->fh, file.fcloses counts the fclose calls made on the      *)
(* handle of the instance.  The other fields describe the last step: the   *)
(* statement that ran, what became of it ("up", "error" for SetError and   *)
(* Dead, "none" when it returned without either), the library and backend  *)
(* calls in order, the mode argument and the mode buffer handed to fopen,  *)
(* the position handed to fseeko and the length that read() holds.         *)
(***************************************************************************)
START_READ_SIZE == 512
MAX_READ_SIZE == 8192

NUL == "\\0"

\* no position was computed
NoPosition == <<>>

NoFile ==
    [inst |-> "none", fh |-> "NULL", fcloses |-> 0, stmt |-> "none",
     result |-> "none", trace |-> <<>>, mode_arg |-> <<>>, mode |-> <<>>,
     position |-> NoPosition, length |-> 0]

\* the instance as a statement finds it, with nothing recorded of the step
Begin(stmt) ==
    [file EXCEPT !.stmt = stmt, !.result = "none", !.trace = <<>>,
                 !.mode_arg = <<>>, !.mode = <<>>, !.position = NoPosition,
                 !.length = 0]

\* variant: "rw" and the like pass, the second character is not checked
parse_mode_AnySecond(data) ==
    IF Len(data) = 0
      THEN [res |-> 0, out |-> <<>>]
      ELSE IF data[1] \notin {"r", "w", "a"}
        THEN [res |-> 0, out |-> <<>>]
        ELSE IF Len(data) = 1
          THEN [res |-> 1, out |-> <<data[1], NUL>>]
          ELSE IF Len(data) = 2
              THEN [res |-> 1, out |-> <<data[1], data[2], NUL>>]
              ELSE [res |-> 0, out |-> <<data[1], data[2]>>]

\* res is the return value, out what was written to the out buffer
parse_mode(data) ==
    IF Len(data) = 0
      THEN [res |-> 0, out |-> <<>>]
      ELSE IF data[1] \notin {"r", "w", "a"}
        THEN [res |-> 0, out |-> <<>>]
        ELSE IF Len(data) = 1
          THEN [res |-> 1, out |-> <<data[1], NUL>>]
          ELSE IF data[2] # "+"
            THEN [res |-> 0, out |-> <<data[1]>>]
            ELSE IF Len(data) = 2
              THEN [res |-> 1, out |-> <<data[1], data[2], NUL>>]
              ELSE [res |-> 0, out |-> <<data[1], data[2]>>]

\* variant: the handle is kept and the statement is not toggled
trigger_error_Silent(f) ==
    f

\* variant: the closed handle stays in o->fh
trigger_error_KeepHandle(f) ==
    LET g == IF f.fh # "NULL"
               THEN [f EXCEPT !.fcloses = @ + 1,
                              !.trace = Append(@, "fclose")]
               ELSE f
    IN [g EXCEPT !.trace = @ \o <<"open.Down", "open.Up">>]

trigger_error(f) ==
    LET g == IF f.fh # "NULL"
               THEN [f EXCEPT !.fh = "NULL", !.fcloses = @ + 1,
                              !.trace = Append(@, "fclose")]
               ELSE f
    IN [g EXCEPT !.trace = @ \o <<"open.Down", "open.Up">>]

\* the is_error variable
open_func_getvar(f) == IF f.fh = "NULL" THEN "true" ELSE "false"

\* variant: a refused method statement goes up
fail0_GoesUp(f) ==
    [f EXCEPT !.result = "up", !.trace = Append(@, "stmt.Up")]

\* fail0 of the method statements
fail0(f) ==
    [f EXCEPT !.result = "error",
              !.trace = @ \o <<"stmt.SetError", "stmt.Dead">>]

\* the statement goes up
Backend_Up(f) ==
    [f EXCEPT !.result = "up", !.trace = Append(@, "stmt.Up")]

open_func_new(failure, mode, fopen_ok) ==
    /\ file.inst \in {"none", "dead"}
    /\ LET f == [Begin("file_open") EXCEPT !.fh = "NULL", !.fcloses = 0,
                                           !.mode_arg = mode]
           pm == parse_mode(mode)
       IN file' =
            IF failure \in {"arity", "type"} \/ pm.res = 0 \/ failure = "nts"
              THEN [f EXCEPT !.inst = "dead", !.result = "error",
                             !.trace = <<"open.SetError", "open.Dead">>]
              ELSE [f EXCEPT !.inst = "up", !.result = "up",
                             !.mode = pm.out,
                             !.fh = IF fopen_ok THEN "FILE" ELSE "NULL",
                             !.trace = <<"fopen", "open.Up">>]
    /\ UNCHANGED bvars

open_func_die ==
    /\ file.inst = "up"
    /\ LET f == Begin("die")
           g == IF f.fh # "NULL"
                  THEN [f EXCEPT !.fcloses = @ + 1,
                                 !.trace = Append(@, "fclose")]
                  ELSE f
       IN file' = [g EXCEPT !.inst = "dead",
                            !.trace = Append(@, "open.Dead")]
    /\ UNCHANGED bvars

\* the loop of read_func_new: rs are the results of the fread calls that
\* read something ("some": a byte, "fill": the rest of the buffer); the call
\* after them returns 0
RECURSIVE ReadLoop(_, _, _, _, _)
ReadLoop(length, capacity, rs, realloc_ok, trace) ==
    IF rs = <<>>
      THEN [length |-> length, failed |-> FALSE,
            trace |-> Append(trace, "fread")]
      ELSE LET readed == IF Head(rs) = "fill" THEN capacity - length ELSE 1
               len == length + readed
               tr == Append(trace, "fread")
           IN IF len = capacity
                THEN IF capacity > MAX_READ_SIZE \div 2
                       THEN [length |-> len, failed |-> FALSE, trace |-> tr]
                       ELSE IF ~realloc_ok
                         THEN [length |-> len, failed |-> TRUE, trace |-> tr]
                         ELSE ReadLoop(len, capacity * 2, Tail(rs),
                                       realloc_ok, tr)
                ELSE ReadLoop(len, capacity, Tail(rs), realloc_ok, tr)

read_func_new(failure, rs, realloc_ok, eof) ==
    /\ file.inst = "up"
    /\ LET f == Begin("read")
           r == ReadLoop(0, START_READ_SIZE, rs, realloc_ok, <<>>)
           g == [f EXCEPT !.trace = r.trace, !.length = r.length]
       IN file' =
            IF failure = "arity" \/ f.fh = "NULL" \/ failure = "alloc"
              THEN fail0(f)
              ELSE IF r.failed
                THEN fail0([g EXCEPT !.length = 0])
                ELSE IF r.length = 0
                  THEN IF ~eof
                         THEN trigger_error(
                                [g EXCEPT !.trace = Append(@, "feof")])
                         ELSE Backend_Up(
                                [g EXCEPT !.trace = Append(@, "feof")])
                  ELSE Backend_Up(g)
    /\ UNCHANGED bvars

\* the loop of write_func_new: ws[k] is what the k-th fwrite call can take,
\* 0 for a failure; the result is the trace, and whether a call failed
RECURSIVE WriteLoop(_, _, _, _)
WriteLoop(length, ws, k, trace) ==
    IF length = 0
      THEN [failed |-> FALSE, trace |-> trace]
      ELSE LET written == IF ws[k] < length THEN ws[k] ELSE length IN
           IF written = 0
             THEN [failed |-> TRUE, trace |-> Append(trace, "fwrite")]
             ELSE WriteLoop(length - written, ws, k + 1,
                            Append(trace, "fwrite"))

write_func_new(failure, length, ws) ==
    /\ file.inst = "up"
    /\ LET f == Begin("write")
           w == WriteLoop(length, ws, 1, <<>>)
           g == [f EXCEPT !.trace = w.trace]
       IN file' =
            IF failure \in {"arity", "type"} \/ f.fh = "NULL"
              THEN fail0(f)
              ELSE IF w.failed
                THEN trigger_error(g)
                ELSE Backend_Up(g)
    /\ UNCHANGED bvars

(***************************************************************************)
(* C integers of 32 and 64 bits.  A value is the sequence of its 16-bit    *)
(* limbs, least significant first: two limbs for a 4-byte type, four for   *)
(* an 8-byte type; a signed type is in two's complement.  The operations   *)
(* are those of the machine: the result is kept modulo 2^(width).          *)
(***************************************************************************)
Limb == 2 ^ 16

Limbs(bytes) == bytes \div 2

IsZero(x) == \A i \in DOMAIN x : x[i] = 0

IsNegative(x) == x[Len(x)] >= Limb \div 2

\* x + 1 and x - 1: the carry or the borrow runs through the low limbs
Inc(x) ==
    [i \in DOMAIN x |->
       IF \A j \in 1..(i - 1) : x[j] = Limb - 1 THEN (x[i] + 1) % Limb
                                                ELSE x[i]]

Dec(x) ==
    [i \in DOMAIN x |->
       IF \A j \in 1..(i - 1) : x[j] = 0 THEN (x[i] + Limb - 1) % Limb
                                         ELSE x[i]]

\* -x
Neg(x) == Inc([i \in DOMAIN x |-> Limb - 1 - x[i]])

\* x > y between unsigned values of one width
Gt(x, y) ==
    \E i \in DOMAIN x :
       /\ x[i] > y[i]
       /\ \A j \in (i + 1)..Len(x) : x[j] = y[j]

\* conversion to a type of the given size: the high limbs are dropped, or
\* the value is extended, by its sign when it is of a signed type
Convert(x, signed, bytes) ==
    [i \in 1..Limbs(bytes) |->
       IF i <= Len(x) THEN x[i]
       ELSE IF signed /\ IsNegative(x) THEN Limb - 1
       ELSE 0]

sizeof_uintmax_t == 8

INT32_MIN == <<0, 32768>>
INT32_MAX == <<65535, 32767>>
INT64_MIN == <<0, 0, 0, 32768>>
INT64_MAX == <<65535, 65535, 65535, 32767>>

\* the sizes of off_t the code provides for
OffSizes == {4, 8}

off_t_min(sizeof_off_t) == IF sizeof_off_t = 8 THEN INT64_MIN ELSE INT32_MIN
off_t_max(sizeof_off_t) == IF sizeof_off_t = 8 THEN INT64_MAX ELSE INT32_MAX

\* (off_t)v of an uintmax_t v
off_t_cast(v, sizeof_off_t) == Convert(v, FALSE, sizeof_off_t)

\* an off_t in a comparison with an uintmax_t
uintmax_t_cast(v) == Convert(v, TRUE, sizeof_uintmax_t)

\* (off_t)v is not the value of v
CastChanges(v, sizeof_off_t) ==
    \/ IsNegative(off_t_cast(v, sizeof_off_t))
    \/ Convert(off_t_cast(v, sizeof_off_t), FALSE, sizeof_uintmax_t) # v

\* variant: the underflow test compares the magnitude itself
seek_position_Symmetric(position_sign, position_mag, sizeof_off_t) ==
    LET min == off_t_min(sizeof_off_t)
        max == off_t_max(sizeof_off_t)
        cast == off_t_cast(Dec(position_mag), sizeof_off_t)
    IN
    IF position_sign < 0 /\ ~IsZero(position_mag)
      THEN IF Gt(position_mag, uintmax_t_cast(Neg(Inc(min))))
             THEN [ok |-> FALSE, position |-> NoPosition,
                   overflow |-> FALSE]
             ELSE [ok |-> TRUE, position |-> Dec(Neg(cast)),
                   overflow |->
                     \/ CastChanges(Dec(position_mag), sizeof_off_t)
                     \/ cast = min
                     \/ Neg(cast) = min]
      ELSE IF Gt(position_mag, uintmax_t_cast(max))
             THEN [ok |-> FALSE, position |-> NoPosition,
                   overflow |-> FALSE]
             ELSE [ok |-> TRUE,
                   position |-> off_t_cast(position_mag, sizeof_off_t),
                   overflow |-> CastChanges(position_mag, sizeof_off_t)]

\* "compute position as off_t" in seek_func_new: ok is FALSE where the
\* code reports position underflow or overflow; overflow says whether a
\* cast changed the value or a signed operation left the range of off_t
seek_position(position_sign, position_mag, sizeof_off_t) ==
    LET min == off_t_min(sizeof_off_t)
        max == off_t_max(sizeof_off_t)
        cast == off_t_cast(Dec(position_mag), sizeof_off_t)
    IN
    IF position_sign < 0 /\ ~IsZero(position_mag)
      THEN IF Gt(Dec(position_mag), uintmax_t_cast(Neg(Inc(min))))
             THEN [ok |-> FALSE, position |-> NoPosition,
                   overflow |-> FALSE]
             ELSE [ok |-> TRUE, position |-> Dec(Neg(cast)),
                   overflow |->
                     \/ CastChanges(Dec(position_mag), sizeof_off_t)
                     \/ cast = min
                     \/ Neg(cast) = min]
      ELSE IF Gt(position_mag, uintmax_t_cast(max))
             THEN [ok |-> FALSE, position |-> NoPosition,
                   overflow |-> FALSE]
             ELSE [ok |-> TRUE,
                   position |-> off_t_cast(position_mag, sizeof_off_t),
                   overflow |-> CastChanges(position_mag, sizeof_off_t)]

\* magnitudes a position argument may have: around 0, around the two
\* limits of a 4-byte and of an 8-byte off_t, and the largest uintmax_t
SeekMags ==
    {<<0, 0, 0, 0>>, <<1, 0, 0, 0>>, <<8, 0, 0, 0>>,
     <<65535, 32767, 0, 0>>, <<0, 32768, 0, 0>>, <<1, 32768, 0, 0>>,
     <<65535, 65535, 65535, 32767>>, <<0, 0, 0, 32768>>,
     <<1, 0, 0, 32768>>, <<65535, 65535, 65535, 65535>>}

\* the values of an off_t of the given size among those of SeekMags
OffValues(sizeof_off_t) == {off_t_cast(m, sizeof_off_t) : m \in SeekMags}

\* after a signed overflow, undefined in C, fseeko may get any position
seek_func_new(failure, position_sign, position_mag, fseeko_ok, sizeof_off_t) ==
    /\ file.inst = "up"
    /\ LET f == Begin("seek")
           sp == seek_position(position_sign, position_mag, sizeof_off_t)
           out_of_range == ~sp.ok
       IN IF failure \in {"arity", "type", "position", "whence"}
             \/ out_of_range \/ f.fh = "NULL"
            THEN file' = fail0(f)
            ELSE \E position \in IF sp.overflow
                                   THEN OffValues(sizeof_off_t)
                                   ELSE {sp.position} :
                    LET g == [f EXCEPT !.position = position,
                                       !.trace = Append(@, "fseeko")]
                    IN file' = IF ~fseeko_ok THEN trigger_error(g)
                                             ELSE Backend_Up(g)
    /\ UNCHANGED bvars

\* variant: a failed fclose is only reported as an error of the statement
close_func_new_NoTrigger(arity_ok, fclose_ok) ==
    /\ file.inst = "up"
    /\ LET f == Begin("close")
           g == [f EXCEPT !.fh = "NULL", !.fcloses = @ + 1,
                          !.trace = Append(@, "fclose")]
       IN file' =
            IF ~arity_ok \/ f.fh = "NULL"
              THEN fail0(f)
              ELSE IF ~fclose_ok
                THEN fail0(g)
                ELSE Backend_Up(g)
    /\ UNCHANGED bvars

close_func_new(arity_ok, fclose_ok) ==
    /\ file.inst = "up"
    /\ LET f == Begin("close")
           g == [f EXCEPT !.fh = "NULL", !.fcloses = @ + 1,
                          !.trace = Append(@, "fclose")]
       IN file' =
            IF ~arity_ok \/ f.fh = "NULL"
              THEN fail0(f)
              ELSE IF ~fclose_ok
                THEN trigger_error(g)
                ELSE Backend_Up(g)
    /\ UNCHANGED bvars

(***************************************************************************)
(* Initial state: a stream socket that BSocket_Init has just returned 0    *)
(* for.  bs->connecting_result is not written by BSocket_Init.             *)
(***************************************************************************)
Init ==
    /\ alive = TRUE
    /\ type = BSOCKET_TYPE_STREAM
    /\ have_pktinfo = FALSE
    /\ global_handler = FALSE
    /\ handlers = [i \in 0..3 |-> FALSE]
    /\ waitEvents = {}
    /\ connecting_status = 0
    /\ connecting_result = "UNSET"
    /\ error = BSOCKET_ERROR_NONE
    /\ recv_max = BSOCKET_DEFAULT_RECV_MAX
    /\ recv_num = 0
    /\ dead = "NULL"
    /\ reactor_events = {}
    /\ pc = "idle"
    /\ returned_events = {}
    /\ badvpn__dead = 0
    /\ fault = "none"
    /\ ret = 0
    /\ log = <<>>
    /\ freed = FALSE
    /\ touched = FALSE
    /\ connect_ret = "UNSET"
    /\ msg = NoMsg
    /\ file = NoFile
    /\ recv_calls = 0
    /\ os_call = "none"
    /\ fdinfo = NoFd

\* an API call on the socket is possible: the object exists, the process runs
CanCall == alive /\ fault = "none"

(***************************************************************************)
(* The liveness token (misc/dead.h).  DEAD_ENTER makes bs->dead point to a *)
(* fresh local flag, DEAD_KILL sets the flag bs->dead points to, DEAD_LEAVE*)
(* reads the local flag and, when it is clear, restores bs->dead.          *)
(***************************************************************************)
DEAD_KILL(ptr, flag) == IF ptr = "local" THEN 1 ELSE flag

DEAD_LEAVE(flag) == flag = 1

(***************************************************************************)
(* Handler table and event mask.                                           *)
(***************************************************************************)
BSocket_AddGlobalEventHandler ==
    /\ CanCall
    /\ ~global_handler
    /\ \A i \in 0..3 : ~handlers[i]
    /\ global_handler' = TRUE
    /\ UNCHANGED <<alive, type, have_pktinfo, handlers, waitEvents,
                   connecting_status, connecting_result, error, recv_max,
                   recv_num, dead, reactor_events, pc, returned_events,
                   badvpn__dead, fault, ret, log, freed, touched>>
    /\ connect_ret' = "UNSET"
    /\ msg' = NoMsg
    /\ UNCHANGED file
    /\ os_call' = "none"
    /\ fdinfo' = NoFd
    /\ UNCHANGED recv_calls

\* variant: the emptied mask is given to the event backend
BSocket_RemoveGlobalEventHandler_UpdatesBackend ==
    /\ CanCall
    /\ global_handler
    /\ global_handler' = FALSE
    /\ waitEvents' = {}
    /\ reactor_events' = get_reactor_fd_events(waitEvents')
    /\ UNCHANGED <<alive, type, have_pktinfo, handlers,
                   connecting_status, connecting_result, error, recv_max,
                   recv_num, dead, pc, returned_events,
                   badvpn__dead, fault, ret, log, freed, touched>>
    /\ connect_ret' = "UNSET"
    /\ msg' = NoMsg
    /\ UNCHANGED file
    /\ os_call' = "none"
    /\ fdinfo' = NoFd
    /\ UNCHANGED recv_calls

BSocket_RemoveGlobalEventHandler ==
    /\ CanCall
    /\ global_handler
    /\ global_handler' = FALSE
    /\ waitEvents' = {}
    /\ UNCHANGED <<alive, type, have_pktinfo, handlers,
                   connecting_status, connecting_result, error, recv_max,
                   recv_num, dead, reactor_events, pc, returned_events,
                   badvpn__dead, fault, ret, log, freed, touched>>
    /\ connect_ret' = "UNSET"
    /\ msg' = NoMsg
    /\ UNCHANGED file
    /\ os_call' = "none"
    /\ fdinfo' = NoFd
    /\ UNCHANGED recv_calls

BSocket_SetGlobalEvents(events) ==
    /\ CanCall
    /\ global_handler
    /\ waitEvents' = events
    /\ reactor_events' = get_reactor_fd_events(waitEvents')
    /\ UNCHANGED <<alive, type, have_pktinfo, global_handler, handlers,
                   connecting_status, connecting_result, error, recv_max,
                   recv_num, dead, pc, returned_events,
                   badvpn__dead, fault, ret, log, freed, touched>>
    /\ connect_ret' = "UNSET"
    /\ msg' = NoMsg
    /\ UNCHANGED file
    /\ os_call' = "none"
    /\ fdinfo' = NoFd
    /\ UNCHANGED recv_calls

\* variant: a per-event handler is accepted next to a global handler
BSocket_AddEventHandler_NoGlobalCheck(event) ==
    /\ CanCall
    /\ ~handlers[get_event_index(event)]
    /\ handlers' = [handlers EXCEPT ![get_event_index(event)] = TRUE]
    /\ UNCHANGED <<alive, type, have_pktinfo, global_handler, waitEvents,
                   connecting_status, connecting_result, error, recv_max,
                   recv_num, dead, reactor_events, pc, returned_events,
                   badvpn__dead, fault, ret, log, freed, touched>>
    /\ connect_ret' = "UNSET"
    /\ msg' = NoMsg
    /\ UNCHANGED file
    /\ os_call' = "none"
    /\ fdinfo' = NoFd
    /\ UNCHANGED recv_calls

BSocket_AddEventHandler(event) ==
    /\ CanCall
    /\ ~global_handler
    /\ ~handlers[get_event_index(event)]
    /\ handlers' = [handlers EXCEPT ![get_event_index(event)] = TRUE]
    /\ UNCHANGED <<alive, type, have_pktinfo, global_handler, waitEvents,
                   connecting_status, connecting_result, error, recv_max,
                   recv_num, dead, reactor_events, pc, returned_events,
                   badvpn__dead, fault, ret, log, freed, touched>>
    /\ connect_ret' = "UNSET"
    /\ msg' = NoMsg
    /\ UNCHANGED file
    /\ os_call' = "none"
    /\ fdinfo' = NoFd
    /\ UNCHANGED recv_calls

\* variant: the bit of the event is not cleared
DisabledEvents_KeepBit(wait, event) == wait

\* waitEvents after BSocket_DisableEvent
DisabledEvents(wait, event) == wait \ {event}

BSocket_RemoveEventHandler(event) ==
    /\ CanCall
    /\ handlers[get_event_index(event)]
    /\ IF event \in waitEvents
          THEN /\ waitEvents' = DisabledEvents(waitEvents, event)
               /\ reactor_events' = get_reactor_fd_events(waitEvents')
          ELSE UNCHANGED <<waitEvents, reactor_events>>
    /\ handlers' = [handlers EXCEPT ![get_event_index(event)] = FALSE]
    /\ UNCHANGED <<alive, type, have_pktinfo, global_handler,
                   connecting_status, connecting_result, error, recv_max,
                   recv_num, dead, pc, returned_events,
                   badvpn__dead, fault, ret, log, freed, touched>>
    /\ connect_ret' = "UNSET"
    /\ msg' = NoMsg
    /\ UNCHANGED file
    /\ os_call' = "none"
    /\ fdinfo' = NoFd
    /\ UNCHANGED recv_calls

BSocket_EnableEvent(event) ==
    /\ CanCall
    /\ waitEvents \cap Incompatible(event) = {}
    /\ handlers[get_event_index(event)]
    /\ event \notin waitEvents
    /\ waitEvents' = waitEvents \cup {event}
    /\ reactor_events' = get_reactor_fd_events(waitEvents')
    /\ UNCHANGED <<alive, type, have_pktinfo, global_handler, handlers,
                   connecting_status, connecting_result, error, recv_max,
                   recv_num, dead, pc, returned_events,
                   badvpn__dead, fault, ret, log, freed, touched>>
    /\ connect_ret' = "UNSET"
    /\ msg' = NoMsg
    /\ UNCHANGED file
    /\ os_call' = "none"
    /\ fdinfo' = NoFd
    /\ UNCHANGED recv_calls

BSocket_DisableEvent(event) ==
    /\ CanCall
    /\ handlers[get_event_index(event)]
    /\ event \in waitEvents
    /\ waitEvents' = DisabledEvents(waitEvents, event)
    /\ reactor_events' = get_reactor_fd_events(waitEvents')
    /\ UNCHANGED <<alive, type, have_pktinfo, global_handler, handlers,
                   connecting_status, connecting_result, error, recv_max,
                   recv_num, dead, pc, returned_events,
                   badvpn__dead, fault, ret, log, freed, touched>>
    /\ connect_ret' = "UNSET"
    /\ msg' = NoMsg
    /\ UNCHANGED file
    /\ os_call' = "none"
    /\ fdinfo' = NoFd
    /\ UNCHANGED recv_calls

(***************************************************************************)
(* Connect state machine.                                                  *)
(***************************************************************************)
\* variant: any failure of connect() is taken for a pending connection
BSocket_Connect_AnyFailurePending(os) ==
    /\ CanCall
    /\ connecting_status = 0
    /\ IF os = "OK"
         THEN /\ error' = BSOCKET_ERROR_NONE
              /\ ret' = 0
              /\ UNCHANGED connecting_status
         ELSE /\ connecting_status' = 1
              /\ error' = BSOCKET_ERROR_IN_PROGRESS
              /\ ret' = -1
    /\ UNCHANGED <<alive, type, have_pktinfo, global_handler, handlers,
                   waitEvents, connecting_result, recv_max,
                   recv_num, dead, reactor_events, pc, returned_events,
                   badvpn__dead, fault, log, freed, touched>>
    /\ connect_ret' = "UNSET"
    /\ msg' = NoMsg
    /\ UNCHANGED file
    /\ os_call' = "none"
    /\ fdinfo' = NoFd
    /\ UNCHANGED recv_calls

BSocket_Connect(os) ==
    /\ CanCall
    /\ connecting_status = 0
    /\ CASE os = "OK" ->
              /\ error' = BSOCKET_ERROR_NONE
              /\ ret' = 0
              /\ UNCHANGED connecting_status
         [] os = "EINPROGRESS" ->
              /\ connecting_status' = 1
              /\ error' = BSOCKET_ERROR_IN_PROGRESS
              /\ ret' = -1
         [] OTHER ->
              /\ error' = BSOCKET_ERROR_UNKNOWN
              /\ ret' = -1
              /\ UNCHANGED connecting_status
    /\ UNCHANGED <<alive, type, have_pktinfo, global_handler, handlers,
                   waitEvents, connecting_result, recv_max,
                   recv_num, dead, reactor_events, pc, returned_events,
                   badvpn__dead, fault, log, freed, touched>>
    /\ connect_ret' = "UNSET"
    /\ msg' = NoMsg
    /\ UNCHANGED file
    /\ os_call' = "none"
    /\ fdinfo' = NoFd
    /\ UNCHANGED recv_calls

\* variant: the attempt stays completed after its result was fetched
BSocket_GetConnectResult_KeepCompleted ==
    /\ CanCall
    /\ connecting_status = 2
    /\ connect_ret' = connecting_result
    /\ msg' = NoMsg
    /\ UNCHANGED file
    /\ UNCHANGED <<alive, type, have_pktinfo, global_handler, handlers,
                   waitEvents, connecting_status, connecting_result, error,
                   recv_max, recv_num, dead, reactor_events, pc,
                   returned_events, badvpn__dead, fault, ret, log, freed,
                   touched, recv_calls>>
    /\ os_call' = "none"
    /\ fdinfo' = NoFd

BSocket_GetConnectResult ==
    /\ CanCall
    /\ connecting_status = 2
    /\ connecting_status' = 0
    /\ UNCHANGED <<alive, type, have_pktinfo, global_handler, handlers,
                   waitEvents, connecting_result, error, recv_max,
                   recv_num, dead, reactor_events, pc, returned_events,
                   badvpn__dead, fault, ret, log, freed, touched>>
    /\ connect_ret' = connecting_result
    /\ msg' = NoMsg
    /\ UNCHANGED file
    /\ os_call' = "none"
    /\ fdinfo' = NoFd
    /\ UNCHANGED recv_calls

(***************************************************************************)
(* Dispatch.                                                               *)
(***************************************************************************)
\* the first test of call_handlers at or after the k-th that succeeds for
\* the returned events re; 4 when none does
NextIdx(k, re) ==
    IF \E i \in k..3 : EventAt(i) \in re
      THEN CHOOSE i \in k..3 :
              /\ EventAt(i) \in re
              /\ \A j \in k..(i - 1) : EventAt(j) \notin re
      ELSE 4

\* what a handler invocation leaves in the log: the handler, the events it
\* is given and the events enabled at that moment
Invocation(h, ev) == [h |-> h, ev |-> ev, wait |-> waitEvents]

\* call_handlers from its k-th per-event test on, up to the next handler
\* invocation or to its end, where the locals of the dispatcher go out of
\* scope; lg is the log so far, d the value of bs->dead on arrival and
\* ndebug says whether ASSERT is compiled out
call_handlers_from(k, re, lg, d, ndebug) ==
    LET i == NextIdx(k, re) IN
    IF i = 4
      THEN /\ pc' = "idle"
           /\ dead' = d
           /\ log' = <<>>
           /\ returned_events' = {}
           /\ badvpn__dead' = 0
           /\ freed' = FALSE
           /\ UNCHANGED fault
      ELSE IF ~handlers[i]
        THEN \* ASSERT(bs->handlers[i]) fails before DEAD_ENTER, or
             \* DEAD_ENTER is done and a null pointer is called
             /\ fault' = "null_handler"
             /\ pc' = "aborted"
             /\ dead' = IF ndebug THEN "local" ELSE d
             /\ badvpn__dead' = IF ndebug THEN 0 ELSE badvpn__dead
             /\ log' = lg
             /\ returned_events' = re
             /\ UNCHANGED freed
        ELSE \* DEAD_ENTER, then the handler is invoked
             /\ pc' = EventAt(i)
             /\ dead' = "local"
             /\ badvpn__dead' = 0
             /\ log' = Append(lg, Invocation(EventAt(i), {EventAt(i)}))
             /\ returned_events' = re
             /\ UNCHANGED <<fault, freed>>

\* variant: the global handler is given the enabled events
call_handlers_EnabledAsArgument(re, ndebug) ==
    /\ recv_num' = 0
    /\ recv_calls' = 0
    /\ IF global_handler
         THEN /\ pc' = "global"
              /\ log' = <<Invocation("global", waitEvents)>>
              /\ returned_events' = re
              /\ UNCHANGED <<fault, dead, badvpn__dead, freed>>
         ELSE call_handlers_from(0, re, <<>>, dead, ndebug)

\* variant: the dispatch does not reset the receive count
call_handlers_KeepRecvNum(re, ndebug) ==
    /\ recv_num' = recv_num
    /\ recv_calls' = 0
    /\ IF global_handler
         THEN /\ pc' = "global"
              /\ log' = <<Invocation("global", re)>>
              /\ returned_events' = re
              /\ UNCHANGED <<fault, dead, badvpn__dead, freed>>
         ELSE call_handlers_from(0, re, <<>>, dead, ndebug)

call_handlers(re, ndebug) ==
    /\ recv_num' = 0
    /\ recv_calls' = 0
    /\ IF global_handler
         THEN /\ pc' = "global"
              /\ log' = <<Invocation("global", re)>>
              /\ returned_events' = re
              /\ UNCHANGED <<fault, dead, badvpn__dead, freed>>
         ELSE call_handlers_from(0, re, <<>>, dead, ndebug)

\* variant: the result of the attempt is not read before the handlers run
file_descriptor_handler_NoResult(events, result, ndebug) ==
    /\ CanCall
    /\ pc = "idle"
    /\ events # {}
    /\ events \subseteq reactor_events
    /\ call_handlers(ReturnedEvents(waitEvents, events), ndebug)
    /\ UNCHANGED <<alive, type, have_pktinfo, global_handler, handlers,
                   waitEvents, error, recv_max, reactor_events, ret,
                   touched, connecting_status, connecting_result>>
    /\ connect_ret' = "UNSET"
    /\ msg' = NoMsg
    /\ UNCHANGED file
    /\ os_call' = "none"
    /\ fdinfo' = NoFd

\* the reactor reports events on the descriptor; result is the value of
\* SO_ERROR at that moment, ndebug says whether ASSERT is compiled out
file_descriptor_handler(events, result, ndebug) ==
    /\ CanCall
    /\ pc = "idle"
    /\ events # {}
    /\ events \subseteq reactor_events
    /\ LET re == ReturnedEvents(waitEvents, events)
           conn == BSOCKET_CONNECT \in waitEvents /\ BREACTOR_WRITE \in events
       IN
       IF conn /\ connecting_status # 1 /\ ~ndebug
         THEN \* ASSERT(bs->connecting_status == 1) aborts
              /\ fault' = "assert_connecting_status"
              /\ pc' = "aborted"
              /\ UNCHANGED <<returned_events, connecting_status,
                             connecting_result, recv_num, recv_calls, log,
                             dead, badvpn__dead, freed>>
         ELSE /\ IF conn
                   THEN /\ connecting_status' = 2
                        /\ connecting_result' = connect_result_of(result)
                   ELSE UNCHANGED <<connecting_status, connecting_result>>
              /\ call_handlers(re, ndebug)
    /\ UNCHANGED <<alive, type, have_pktinfo, global_handler, handlers,
                   waitEvents, error, recv_max, reactor_events, ret,
                   touched>>
    /\ connect_ret' = "UNSET"
    /\ msg' = NoMsg
    /\ UNCHANGED file
    /\ os_call' = "none"
    /\ fdinfo' = NoFd

\* Windows build: the event object of the socket is signalled and
\* WSAEnumNetworkEvents returns the network events recorded for it, with
\* the error code of the connection attempt
handle_handler(lNetworkEvents, iErrorCode, ndebug) ==
    /\ CanCall
    /\ pc = "idle"
    /\ lNetworkEvents # {}
    /\ LET re == WsaReturnedEvents(waitEvents, lNetworkEvents)
           conn == BSOCKET_CONNECT \in waitEvents
                   /\ FD_CONNECT \in lNetworkEvents
       IN
       IF conn /\ connecting_status # 1 /\ ~ndebug
         THEN \* ASSERT(bs->connecting_status == 1) aborts
              /\ fault' = "assert_connecting_status"
              /\ pc' = "aborted"
              /\ UNCHANGED <<returned_events, connecting_status,
                             connecting_result, recv_num, recv_calls, log,
                             dead, badvpn__dead, freed>>
         ELSE /\ IF conn
                   THEN /\ connecting_status' = 2
                        /\ connecting_result' =
                              wsa_connect_result_of(iErrorCode)
                   ELSE UNCHANGED <<connecting_status, connecting_result>>
              /\ call_handlers(re, ndebug)
    /\ UNCHANGED <<alive, type, have_pktinfo, global_handler, handlers,
                   waitEvents, error, recv_max, reactor_events, ret,
                   touched>>
    /\ connect_ret' = "UNSET"
    /\ msg' = NoMsg
    /\ UNCHANGED file
    /\ os_call' = "none"
    /\ fdinfo' = NoFd

\* the dispatcher's locals go out of scope
DispatchEnd ==
    /\ pc' = "idle"
    /\ log' = <<>>
    /\ returned_events' = {}
    /\ badvpn__dead' = 0
    /\ freed' = FALSE

\* variant: the test of the handler that returned is made again
NextTest_Same(h) == get_event_index(h)

\* the test call_handlers goes on with after the handler of event h
NextTest(h) == get_event_index(h) + 1

\* variant: the remaining tests look at the events enabled now
RemainingEvents_Enabled == returned_events \cap waitEvents

\* the events the remaining tests of call_handlers look at: its parameter
RemainingEvents == returned_events

\* variant: the liveness flag is not looked at after a handler returns
HandlerReturn_IgnoreDead ==
    /\ fault = "none"
    /\ pc \in {"global"} \cup SocketEvents
    /\ IF pc = "global"
         THEN /\ DispatchEnd
              /\ UNCHANGED <<dead, fault, touched>>
         ELSE /\ touched' = (touched \/ freed)
              /\ \E ndebug \in BOOLEAN :
                    call_handlers_from(NextTest(pc), RemainingEvents,
                                       log, "NULL", ndebug)
    /\ UNCHANGED <<alive, type, have_pktinfo, global_handler, handlers,
                   waitEvents, connecting_status, connecting_result, error,
                   recv_max, recv_num, reactor_events, ret>>
    /\ connect_ret' = "UNSET"
    /\ msg' = NoMsg
    /\ UNCHANGED file
    /\ os_call' = "none"
    /\ fdinfo' = NoFd
    /\ UNCHANGED recv_calls

\* the running handler returns to call_handlers, in a build of either kind
HandlerReturn ==
    /\ fault = "none"
    /\ pc \in {"global"} \cup SocketEvents
    /\ IF pc = "global"
         THEN /\ DispatchEnd
              /\ UNCHANGED <<dead, fault, touched>>
         ELSE IF DEAD_LEAVE(badvpn__dead)
           THEN /\ DispatchEnd
                /\ UNCHANGED <<dead, fault, touched>>
           ELSE /\ touched' = (touched \/ freed)
                /\ \E ndebug \in BOOLEAN :
                      call_handlers_from(NextTest(pc), RemainingEvents,
                                         log, "NULL", ndebug)
    /\ UNCHANGED <<alive, type, have_pktinfo, global_handler, handlers,
                   waitEvents, connecting_status, connecting_result, error,
                   recv_max, recv_num, reactor_events, ret>>
    /\ connect_ret' = "UNSET"
    /\ msg' = NoMsg
    /\ UNCHANGED file
    /\ os_call' = "none"
    /\ fdinfo' = NoFd
    /\ UNCHANGED recv_calls

(***************************************************************************)
(* Construction and destruction.                                           *)
(***************************************************************************)
\* variant: the descriptor is closed while the reactor still watches it
BSocket_Free_KeepRegistration ==
    /\ CanCall
    /\ alive' = FALSE
    /\ badvpn__dead' = DEAD_KILL(dead, badvpn__dead)
    /\ freed' = (pc # "idle")
    /\ UNCHANGED <<type, have_pktinfo, global_handler, handlers, waitEvents,
                   connecting_status, connecting_result, error, recv_max,
                   recv_num, dead, pc, returned_events, fault, ret,
                   log, touched, reactor_events>>
    /\ connect_ret' = "UNSET"
    /\ msg' = NoMsg
    /\ UNCHANGED file
    /\ os_call' = "none"
    /\ fdinfo' = [close_socket(OwnedFd("bs"))
                    EXCEPT !.owner = "none",
                           !.trace = Append(@, "DEAD_KILL")]
    /\ UNCHANGED recv_calls

BSocket_Free ==
    /\ CanCall
    /\ alive' = FALSE
    /\ reactor_events' = {}
    /\ badvpn__dead' = DEAD_KILL(dead, badvpn__dead)
    /\ freed' = (pc # "idle")
    /\ UNCHANGED <<type, have_pktinfo, global_handler, handlers, waitEvents,
                   connecting_status, connecting_result, error, recv_max,
                   recv_num, dead, pc, returned_events, fault, ret,
                   log, touched>>
    /\ connect_ret' = "UNSET"
    /\ msg' = NoMsg
    /\ UNCHANGED file
    /\ os_call' = "none"
    /\ fdinfo' = [close_socket(free_event_backend(OwnedFd("bs")))
                    EXCEPT !.owner = "none",
                           !.trace = Append(@, "DEAD_KILL")]
    /\ UNCHANGED recv_calls

\* BSocket_Init on the memory of a freed socket; outcome says which step
\* fails, pktinfo_ok whether the pktinfo setsockopt succeeds
\* variant: a failure of set_nonblocking leaves the descriptor open
BSocket_Init_NoRollback(domain, t, outcome, pktinfo_ok) ==
    /\ ~alive
    /\ fault = "none"
    /\ IF outcome \in {"socket_fail", "nonblock_fail"}
         THEN /\ ret' = -1
              /\ fdinfo' = IF outcome = "socket_fail"
                              THEN NoFd ELSE NewFd
              /\ UNCHANGED <<alive, type, have_pktinfo, global_handler,
                             handlers, waitEvents, connecting_status, error,
                             recv_max, recv_num, recv_calls, dead,
                             reactor_events>>
         ELSE /\ dead' = "NULL"
              /\ type' = t
              /\ have_pktinfo' = (t = BSOCKET_TYPE_DGRAM /\ pktinfo_ok)
              /\ error' = BSOCKET_ERROR_NONE
              /\ global_handler' = FALSE
              /\ handlers' = [i \in 0..3 |-> FALSE]
              /\ waitEvents' = {}
              /\ connecting_status' = 0
              /\ recv_max' = BSOCKET_DEFAULT_RECV_MAX
              /\ recv_num' = 0
              /\ recv_calls' = 0
              /\ reactor_events' = {}
              /\ alive' = (outcome = "ok")
              /\ ret' = IF outcome = "ok" THEN 0 ELSE -1
              /\ fdinfo' = IF outcome = "ok"
                              THEN [OwnedFd("bs") EXCEPT
                                      !.have_pktinfo = have_pktinfo']
                              ELSE ClosedFd(TRUE)
    /\ UNCHANGED <<connecting_result, pc, returned_events, badvpn__dead,
                   fault, log, freed, touched>>
    /\ connect_ret' = "UNSET"
    /\ msg' = NoMsg
    /\ UNCHANGED file
    /\ os_call' = "none"

\* variant: the pktinfo option is tried on sockets of either type
BSocket_Init_PktinfoAnyType(domain, t, outcome, pktinfo_ok) ==
    /\ ~alive
    /\ fault = "none"
    /\ IF outcome \in {"socket_fail", "nonblock_fail"}
         THEN /\ ret' = -1
              /\ fdinfo' = IF outcome = "socket_fail"
                              THEN NoFd ELSE ClosedFd(FALSE)
              /\ UNCHANGED <<alive, type, have_pktinfo, global_handler,
                             handlers, waitEvents, connecting_status, error,
                             recv_max, recv_num, recv_calls, dead,
                             reactor_events>>
         ELSE /\ dead' = "NULL"
              /\ type' = t
              /\ have_pktinfo' = pktinfo_ok
              /\ error' = BSOCKET_ERROR_NONE
              /\ global_handler' = FALSE
              /\ handlers' = [i \in 0..3 |-> FALSE]
              /\ waitEvents' = {}
              /\ connecting_status' = 0
              /\ recv_max' = BSOCKET_DEFAULT_RECV_MAX
              /\ recv_num' = 0
              /\ recv_calls' = 0
              /\ reactor_events' = {}
              /\ alive' = (outcome = "ok")
              /\ ret' = IF outcome = "ok" THEN 0 ELSE -1
              /\ fdinfo' = IF outcome = "ok"
                              THEN [OwnedFd("bs") EXCEPT
                                      !.have_pktinfo = have_pktinfo']
                              ELSE ClosedFd(TRUE)
    /\ UNCHANGED <<connecting_result, pc, returned_events, badvpn__dead,
                   fault, log, freed, touched>>
    /\ connect_ret' = "UNSET"
    /\ msg' = NoMsg
    /\ UNCHANGED file
    /\ os_call' = "none"

BSocket_Init(domain, t, outcome, pktinfo_ok) ==
    /\ ~alive
    /\ fault = "none"
    /\ IF outcome \in {"socket_fail", "nonblock_fail"}
         THEN /\ ret' = -1
              /\ fdinfo' = IF outcome = "socket_fail"
                              THEN NoFd ELSE ClosedFd(FALSE)
              /\ UNCHANGED <<alive, type, have_pktinfo, global_handler,
                             handlers, waitEvents, connecting_status, error,
                             recv_max, recv_num, recv_calls, dead,
                             reactor_events>>
         ELSE /\ dead' = "NULL"
              /\ type' = t
              /\ have_pktinfo' = (t = BSOCKET_TYPE_DGRAM /\ pktinfo_ok)
              /\ error' = BSOCKET_ERROR_NONE
              /\ global_handler' = FALSE
              /\ handlers' = [i \in 0..3 |-> FALSE]
              /\ waitEvents' = {}
              /\ connecting_status' = 0
              /\ recv_max' = BSOCKET_DEFAULT_RECV_MAX
              /\ recv_num' = 0
              /\ recv_calls' = 0
              /\ reactor_events' = {}
              /\ alive' = (outcome = "ok")
              /\ ret' = IF outcome = "ok" THEN 0 ELSE -1
              /\ fdinfo' = IF outcome = "ok"
                              THEN [OwnedFd("bs") EXCEPT
                                      !.have_pktinfo = have_pktinfo']
                              ELSE ClosedFd(TRUE)
    /\ UNCHANGED <<connecting_result, pc, returned_events, badvpn__dead,
                   fault, log, freed, touched>>
    /\ connect_ret' = "UNSET"
    /\ msg' = NoMsg
    /\ UNCHANGED file
    /\ os_call' = "none"

(***************************************************************************)
(* The event, dispatch and connect machine of one socket.                  *)
(***************************************************************************)
(***************************************************************************)
(* Receive quota and the receive calls.                                    *)
(***************************************************************************)
\* variant: the quota counts and refuses whatever recv_max is
limit_recv_CountAlways(max, num) ==
    IF num >= max
      THEN [res |-> 1, recv_num |-> num]
      ELSE [res |-> 0, recv_num |-> num + 1]

\* variant: one call more than the quota passes
limit_recv_OneMore(max, num) ==
    IF max > 0
      THEN IF num > max
             THEN [res |-> 1, recv_num |-> num]
             ELSE [res |-> 0, recv_num |-> num + 1]
      ELSE [res |-> 0, recv_num |-> num]

\* the value limit_recv returns and the recv_num it leaves
limit_recv(max, num) ==
    IF max > 0
      THEN IF num >= max
             THEN [res |-> 1, recv_num |-> num]
             ELSE [res |-> 0, recv_num |-> num + 1]
      ELSE [res |-> 0, recv_num |-> num]

\* variant: the count of the calls made so far is kept
BSocket_SetRecvMax_KeepNum(max) ==
    /\ CanCall
    /\ max > 0 \/ max = -1
    /\ recv_max' = max
    /\ recv_calls' = 0
    /\ connect_ret' = "UNSET"
    /\ msg' = NoMsg
    /\ UNCHANGED file
    /\ UNCHANGED <<alive, type, have_pktinfo, global_handler, handlers,
                   waitEvents, connecting_status, connecting_result, error,
                   recv_num, dead, reactor_events, pc, returned_events,
                   badvpn__dead, fault, ret, log, freed, touched>>
    /\ os_call' = "none"
    /\ fdinfo' = NoFd

BSocket_SetRecvMax(max) ==
    /\ CanCall
    /\ max > 0 \/ max = -1
    /\ recv_max' = max
    /\ recv_num' = 0
    /\ recv_calls' = 0
    /\ connect_ret' = "UNSET"
    /\ msg' = NoMsg
    /\ UNCHANGED file
    /\ UNCHANGED <<alive, type, have_pktinfo, global_handler, handlers,
                   waitEvents, connecting_status, connecting_result, error,
                   dead, reactor_events, pc, returned_events, badvpn__dead,
                   fault, ret, log, freed, touched>>
    /\ os_call' = "none"
    /\ fdinfo' = NoFd

\* the error kind for the errno of a send or receive primitive
transfer_error(oserr, winapi) ==
    CASE oserr = "EAGAIN" -> BSOCKET_ERROR_LATER
      [] oserr = "ECONNRESET" ->
            IF winapi /\ type = BSOCKET_TYPE_DGRAM
              THEN BSOCKET_ERROR_CONNECTION_REFUSED
              ELSE BSOCKET_ERROR_CONNECTION_RESET
      [] oserr = "ECONNREFUSED" ->
            IF winapi THEN BSOCKET_ERROR_UNKNOWN
                      ELSE BSOCKET_ERROR_CONNECTION_REFUSED
      [] OTHER -> BSOCKET_ERROR_UNKNOWN

\* the primitive was called: error slot and return value
Transfer(call, oserr, bytes, winapi) ==
    /\ os_call' = call
    /\ IF oserr = "OK"
         THEN error' = BSOCKET_ERROR_NONE /\ ret' = bytes
         ELSE error' = transfer_error(oserr, winapi) /\ ret' = -1

\* a receive call from its limit_recv test on
\* the sender's address is converted after a successful primitive
Receive(call, oserr, bytes, winapi, m) ==
    LET lim == limit_recv(recv_max, recv_num)
        received == lim.res = 0 /\ oserr = "OK"
        aborts == received /\ m.addr = Aborted
    IN
    /\ recv_calls < MaxRecvCalls
    /\ recv_calls' = recv_calls + 1
    /\ recv_num' = lim.recv_num
    /\ IF lim.res = 1
         THEN /\ error' = BSOCKET_ERROR_LATER
              /\ ret' = -1
              /\ os_call' = "none"
         ELSE IF aborts
           THEN os_call' = call /\ UNCHANGED <<error, ret>>
           ELSE Transfer(call, oserr, bytes, winapi)
    /\ fault' = IF aborts THEN "assert_sys_addr" ELSE fault
    /\ pc' = IF aborts THEN "aborted" ELSE pc
    /\ connect_ret' = "UNSET"
    /\ msg' = IF received /\ ~aborts THEN m ELSE NoMsg
    /\ UNCHANGED file
    /\ UNCHANGED <<alive, type, have_pktinfo, global_handler, handlers,
                   waitEvents, connecting_status, connecting_result, recv_max,
                   dead, reactor_events, returned_events, badvpn__dead,
                   log, freed, touched>>
    /\ fdinfo' = NoFd

BSocket_Recv(oserr, bytes, winapi) ==
    /\ CanCall
    /\ Receive("recv", oserr, bytes, winapi, NoMsg)

BSocket_RecvFrom(oserr, bytes, winapi, name) ==
    /\ CanCall
    /\ \E a \in BAddrOutcomes(name) :
          Receive("recvfrom", oserr, bytes, winapi,
                  [NoMsg EXCEPT !.name = name, !.addr = a])

recvfromto_fallback(oserr, bytes, winapi, name) ==
    \E a \in BAddrOutcomes(name) :
       Receive("recvfrom", oserr, bytes, winapi,
               [NoMsg EXCEPT !.name = name,
                             !.addr = a,
                             !.local_addr = BIPAddr_InitInvalid])

\* without pktinfo, or without WSARecvMsg, BSocket_RecvFrom does the call
BSocket_RecvFromTo(oserr, bytes, winapi, ioctl_ok, name, control) ==
    /\ CanCall
    /\ IF ~have_pktinfo \/ (winapi /\ ~ioctl_ok)
         THEN recvfromto_fallback(oserr, bytes, winapi, name)
         ELSE \E a \in BAddrOutcomes(name) :
                 Receive("recvmsg", oserr, bytes, winapi,
                         [name |-> name,
                          control |-> control,
                          controllen |-> ControlSpace(control),
                          addr |-> a,
                          local_addr |->
                            RecvControl(control, BIPAddr_InitInvalid)])

(***************************************************************************)
(* Send calls, and the calls that set up a listener.                       *)
(***************************************************************************)
\* a send call from its primitive on
\* the destination is converted before the primitive is called
Send(call, oserr, bytes, winapi, m) ==
    LET aborts == m.name = Aborted IN
    /\ IF aborts
         THEN os_call' = "none" /\ UNCHANGED <<error, ret>>
         ELSE Transfer(call, oserr, bytes, winapi)
    /\ fault' = IF aborts THEN "assert_addr_type" ELSE fault
    /\ pc' = IF aborts THEN "aborted" ELSE pc
    /\ connect_ret' = "UNSET"
    /\ msg' = IF aborts THEN NoMsg ELSE m
    /\ UNCHANGED file
    /\ UNCHANGED <<alive, type, have_pktinfo, global_handler, handlers,
                   waitEvents, connecting_status, connecting_result, recv_max,
                   recv_num, dead, reactor_events, returned_events,
                   badvpn__dead, log, freed, touched, recv_calls>>
    /\ fdinfo' = NoFd

BSocket_Send(oserr, bytes, winapi) ==
    /\ CanCall
    /\ Send("send", oserr, bytes, winapi, NoMsg)

\* remote_sysaddr is what the local of that name holds when the call
\* begins
BSocket_SendTo(oserr, bytes, winapi, addr, remote_sysaddr) ==
    /\ CanCall
    /\ \E name \in SysAddrOutcomes(remote_sysaddr, addr) :
          Send("sendto", oserr, bytes, winapi,
               [NoMsg EXCEPT !.name = name, !.addr = addr])

\* without pktinfo, or without WSASendMsg, BSocket_SendTo does the call;
\* remote_sysaddr is what the local of that name holds, here or there,
\* when its function begins
BSocket_SendToFrom(oserr, bytes, winapi, ioctl_ok, addr, local_addr, remote_sysaddr) ==
    /\ IF ~have_pktinfo \/ (winapi /\ ~ioctl_ok)
         THEN BSocket_SendTo(oserr, bytes, winapi, addr, remote_sysaddr)
         ELSE /\ CanCall
              /\ \E name \in SysAddrOutcomes(remote_sysaddr, addr) :
                    Send("sendmsg", oserr, bytes, winapi,
                         LET c == SendControl(local_addr, winapi) IN
                         [name |-> name,
                          control |-> c.control,
                          controllen |-> c.controllen,
                          addr |-> addr,
                          local_addr |-> local_addr])

\* what BSocket_Accept and BSocket_GetPeerName can leave in the caller's
\* addr: the converted peer address when addr is given, nothing otherwise
ClientAddr(addr, name) ==
    IF addr THEN {[NoMsg EXCEPT !.addr = a] : a \in BAddrOutcomes(name)}
            ELSE {NoMsg}

\* a call that writes the error slot, its return value and, where it has
\* one and succeeds, the address m it returns to the caller
Outcome(call, kind, m) ==
    LET aborts == m.addr = Aborted IN
    /\ os_call' = call
    /\ IF aborts
         THEN UNCHANGED <<error, ret>>
         ELSE /\ error' = kind
              /\ ret' = IF kind = BSOCKET_ERROR_NONE THEN 0 ELSE -1
    /\ fault' = IF aborts THEN "assert_sys_addr" ELSE fault
    /\ pc' = IF aborts THEN "aborted" ELSE pc
    /\ connect_ret' = "UNSET"
    /\ msg' = IF aborts THEN NoMsg ELSE m
    /\ UNCHANGED file
    /\ UNCHANGED <<alive, type, have_pktinfo, global_handler, handlers,
                   waitEvents, connecting_status, connecting_result, recv_max,
                   recv_num, dead, reactor_events, returned_events,
                   badvpn__dead, log, freed, touched, recv_calls>>

BSocket_Bind(oserr, winapi) ==
    /\ CanCall
    /\ Outcome("bind",
         CASE oserr = "OK" -> BSOCKET_ERROR_NONE
           [] oserr = "EADDRNOTAVAIL" -> BSOCKET_ERROR_ADDRESS_NOT_AVAILABLE
           [] oserr = "EADDRINUSE" -> BSOCKET_ERROR_ADDRESS_IN_USE
           [] oserr = "EACCES" /\ ~winapi -> BSOCKET_ERROR_ACCESS_DENIED
           [] OTHER -> BSOCKET_ERROR_UNKNOWN,
         NoMsg)
    /\ fdinfo' = NoFd

BSocket_Listen(oserr) ==
    /\ CanCall
    /\ Outcome("listen",
         CASE oserr = "OK" -> BSOCKET_ERROR_NONE
           [] oserr = "EADDRINUSE" -> BSOCKET_ERROR_ADDRESS_IN_USE
           [] OTHER -> BSOCKET_ERROR_UNKNOWN,
         NoMsg)
    /\ fdinfo' = NoFd

\* variant: an accepted descriptor nobody asked for is left open
BSocket_Accept_LeakUnwanted(oserr, newsock, outcome, addr, name) ==
    /\ CanCall
    /\ IF oserr # "OK"
         THEN /\ Outcome("accept",
                         IF oserr = "EAGAIN" THEN BSOCKET_ERROR_LATER
                                             ELSE BSOCKET_ERROR_UNKNOWN,
                         NoMsg)
              /\ fdinfo' = NoFd
         ELSE IF ~newsock
           THEN /\ \E m \in ClientAddr(addr, name) :
                   Outcome("accept", BSOCKET_ERROR_NONE, m)
                /\ fdinfo' = NewFd
           ELSE CASE outcome = "nonblock_fail" ->
                       /\ Outcome("accept", BSOCKET_ERROR_UNKNOWN, NoMsg)
                       /\ fdinfo' = ClosedFd(FALSE)
                  [] outcome = "backend_fail" ->
                       /\ Outcome("accept", BSOCKET_ERROR_UNKNOWN, NoMsg)
                       /\ fdinfo' = ClosedFd(TRUE)
                  [] OTHER ->
                       /\ \E m \in ClientAddr(addr, name) :
                          Outcome("accept", BSOCKET_ERROR_NONE, m)
                       /\ fdinfo' = [OwnedFd("newsock") EXCEPT
                                       !.have_pktinfo = FALSE]

BSocket_Accept(oserr, newsock, outcome, addr, name) ==
    /\ CanCall
    /\ IF oserr # "OK"
         THEN /\ Outcome("accept",
                         IF oserr = "EAGAIN" THEN BSOCKET_ERROR_LATER
                                             ELSE BSOCKET_ERROR_UNKNOWN,
                         NoMsg)
              /\ fdinfo' = NoFd
         ELSE IF ~newsock
           THEN /\ \E m \in ClientAddr(addr, name) :
                   Outcome("accept", BSOCKET_ERROR_NONE, m)
                /\ fdinfo' = close_socket(NewFd)
           ELSE CASE outcome = "nonblock_fail" ->
                       /\ Outcome("accept", BSOCKET_ERROR_UNKNOWN, NoMsg)
                       /\ fdinfo' = ClosedFd(FALSE)
                  [] outcome = "backend_fail" ->
                       /\ Outcome("accept", BSOCKET_ERROR_UNKNOWN, NoMsg)
                       /\ fdinfo' = ClosedFd(TRUE)
                  [] OTHER ->
                       /\ \E m \in ClientAddr(addr, name) :
                          Outcome("accept", BSOCKET_ERROR_NONE, m)
                       /\ fdinfo' = [OwnedFd("newsock") EXCEPT
                                       !.have_pktinfo = FALSE]

\* variant: a failure leaves the error slot as it was
BSocket_GetPeerName_StaleError(oserr, name) ==
    /\ CanCall
    /\ IF oserr = "OK"
         THEN \E m \in ClientAddr(TRUE, name) :
                 Outcome("getpeername", BSOCKET_ERROR_NONE, m)
         ELSE /\ os_call' = "getpeername"
              /\ ret' = -1
              /\ connect_ret' = "UNSET"
              /\ msg' = NoMsg
              /\ UNCHANGED file
              /\ UNCHANGED <<alive, type, have_pktinfo, global_handler,
                             handlers, waitEvents, connecting_status,
                             connecting_result, error, recv_max, recv_num,
                             dead, reactor_events, pc, returned_events,
                             badvpn__dead, fault, log, freed, touched,
                             recv_calls>>
    /\ fdinfo' = NoFd

BSocket_GetPeerName(oserr, name) ==
    /\ CanCall
    /\ IF oserr = "OK"
         THEN \E m \in ClientAddr(TRUE, name) :
                 Outcome("getpeername", BSOCKET_ERROR_NONE, m)
         ELSE Outcome("getpeername", BSOCKET_ERROR_UNKNOWN, NoMsg)
    /\ fdinfo' = NoFd

Next ==
    \/ BSocket_AddGlobalEventHandler
    \/ BSocket_RemoveGlobalEventHandler
    \/ \E events \in SUBSET SocketEvents : BSocket_SetGlobalEvents(events)
    \/ \E event \in SocketEvents : BSocket_AddEventHandler(event)
    \/ \E event \in SocketEvents : BSocket_RemoveEventHandler(event)
    \/ \E event \in SocketEvents : BSocket_EnableEvent(event)
    \/ \E event \in SocketEvents : BSocket_DisableEvent(event)
    \/ \E os \in ConnectOutcomes : BSocket_Connect(os)
    \/ BSocket_GetConnectResult
    \/ \E events \in SUBSET {BREACTOR_READ, BREACTOR_WRITE},
          result \in SoErrors, ndebug \in BOOLEAN :
          file_descriptor_handler(events, result, ndebug)
    \/ HandlerReturn
    \/ BSocket_Free
    \/ \E domain \in {BADDR_TYPE_IPV4, BADDR_TYPE_IPV6},
          t \in InitTypes,
          outcome \in InitOutcomes, pktinfo_ok \in BOOLEAN :
          BSocket_Init(domain, t, outcome, pktinfo_ok)

Spec == Init /\ [][Next]_vars

(***************************************************************************)
(* The same machine with every socket a stream socket: the handler table,  *)
(* the event mask, the dispatcher and the connect state never look at      *)
(* bs->type or bs->have_pktinfo, which only BSocket_Init writes and only   *)
(* the datagram calls read.                                                *)
(***************************************************************************)
NextStream ==
    \/ BSocket_AddGlobalEventHandler
    \/ BSocket_RemoveGlobalEventHandler
    \/ \E events \in SUBSET SocketEvents : BSocket_SetGlobalEvents(events)
    \/ \E event \in SocketEvents : BSocket_AddEventHandler(event)
    \/ \E event \in SocketEvents : BSocket_RemoveEventHandler(event)
    \/ \E event \in SocketEvents : BSocket_EnableEvent(event)
    \/ \E event \in SocketEvents : BSocket_DisableEvent(event)
    \/ \E os \in ConnectOutcomes : BSocket_Connect(os)
    \/ BSocket_GetConnectResult
    \/ \E events \in SUBSET {BREACTOR_READ, BREACTOR_WRITE},
          result \in SoErrors, ndebug \in BOOLEAN :
          file_descriptor_handler(events, result, ndebug)
    \/ HandlerReturn
    \/ BSocket_Free
    \/ \E domain \in {BADDR_TYPE_IPV4, BADDR_TYPE_IPV6},
          outcome \in InitOutcomes, pktinfo_ok \in BOOLEAN :
          BSocket_Init(domain, BSOCKET_TYPE_STREAM, outcome, pktinfo_ok)

SpecStream == Init /\ [][NextStream]_vars

(***************************************************************************)
(* A socket of either type on which every call of the transfer and        *)
(* listener interface is made, with every outcome of its OS primitive.     *)
(***************************************************************************)
InitIO ==
    /\ alive = TRUE
    /\ type \in {BSOCKET_TYPE_STREAM, BSOCKET_TYPE_DGRAM}
    /\ have_pktinfo \in {FALSE, type = BSOCKET_TYPE_DGRAM}
    /\ global_handler = FALSE
    /\ handlers = [i \in 0..3 |-> FALSE]
    /\ waitEvents = {}
    /\ connecting_status = 0
    /\ connecting_result = "UNSET"
    /\ error = BSOCKET_ERROR_NONE
    /\ recv_max = BSOCKET_DEFAULT_RECV_MAX
    /\ recv_num = 0
    /\ dead = "NULL"
    /\ reactor_events = {}
    /\ pc = "idle"
    /\ returned_events = {}
    /\ badvpn__dead = 0
    /\ fault = "none"
    /\ ret = 0
    /\ log = <<>>
    /\ freed = FALSE
    /\ touched = FALSE
    /\ connect_ret = "UNSET"
    /\ msg = NoMsg
    /\ file = NoFile
    /\ recv_calls = 0
    /\ os_call = "none"
    /\ fdinfo = NoFd

DeliverReadable ==
    \E result \in SoErrors, ndebug \in BOOLEAN :
        file_descriptor_handler({BREACTOR_READ}, result, ndebug)

NextIO ==
    \/ \E max \in {-1} \cup 1..MaxRecvMax : BSocket_SetRecvMax(max)
    \/ \E oserr \in TransferErrors, bytes \in 0..MaxBytes,
          winapi \in BOOLEAN :
          BSocket_Recv(oserr, bytes, winapi)
    \/ \E oserr \in TransferErrors, bytes \in 0..MaxBytes,
          winapi \in BOOLEAN, name \in {SysAddrOf(IoAddr)} :
          BSocket_RecvFrom(oserr, bytes, winapi, name)
    \/ \E oserr \in TransferErrors, bytes \in 0..MaxBytes,
          winapi \in BOOLEAN, ioctl_ok \in BOOLEAN,
          name \in {SysAddrOf(IoAddr)}, control \in {<<>>} :
          BSocket_RecvFromTo(oserr, bytes, winapi, ioctl_ok, name, control)
    \/ \E oserr \in TransferErrors, bytes \in 0..MaxBytes,
          winapi \in BOOLEAN :
          BSocket_Send(oserr, bytes, winapi)
    \/ \E oserr \in TransferErrors, bytes \in 0..MaxBytes,
          winapi \in BOOLEAN, addr \in {IoAddr},
          remote_sysaddr \in UninitSysAddrs :
          BSocket_SendTo(oserr, bytes, winapi, addr, remote_sysaddr)
    \/ \E oserr \in TransferErrors, bytes \in 0..MaxBytes,
          winapi \in BOOLEAN, ioctl_ok \in BOOLEAN,
          addr \in {IoAddr}, local_addr \in {BIPAddr_InitInvalid},
          remote_sysaddr \in UninitSysAddrs :
          BSocket_SendToFrom(oserr, bytes, winapi, ioctl_ok, addr, local_addr,
                             remote_sysaddr)
    \/ \E os \in ConnectOutcomes : BSocket_Connect(os)
    \/ \E oserr \in BindErrors, winapi \in BOOLEAN :
          BSocket_Bind(oserr, winapi)
    \/ \E oserr \in ListenErrors : BSocket_Listen(oserr)
    \/ \E oserr \in AcceptErrors, newsock \in BOOLEAN,
          outcome \in AcceptOutcomes, addr \in BOOLEAN,
          name \in {SysAddrOf(IoAddr)} :
          BSocket_Accept(oserr, newsock, outcome, addr, name)
    \/ \E oserr \in PeerNameErrors, name \in RecvNames :
          BSocket_GetPeerName(oserr, name)

SpecIO == InitIO /\ [][NextIO]_vars

\* the receive calls made from inside and outside a READ handler
NextRecv ==
    \/ \E max \in {-1} \cup 1..MaxRecvMax : BSocket_SetRecvMax(max)
    \/ \E oserr \in TransferErrors, bytes \in 0..MaxBytes,
          winapi \in BOOLEAN :
          BSocket_Recv(oserr, bytes, winapi)
    \/ \E oserr \in TransferErrors, bytes \in 0..MaxBytes,
          winapi \in BOOLEAN, name \in {SysAddrOf(IoAddr)} :
          BSocket_RecvFrom(oserr, bytes, winapi, name)
    \/ \E oserr \in TransferErrors, bytes \in 0..MaxBytes,
          winapi \in BOOLEAN, ioctl_ok \in BOOLEAN,
          name \in {SysAddrOf(IoAddr)}, control \in {<<>>} :
          BSocket_RecvFromTo(oserr, bytes, winapi, ioctl_ok, name, control)
    \/ BSocket_AddEventHandler(BSOCKET_READ)
    \/ BSocket_EnableEvent(BSOCKET_READ)
    \/ DeliverReadable
    \/ HandlerReturn

SpecRecv == InitIO /\ [][NextRecv]_vars

(***************************************************************************)
(* A socket that is opened with either type, configured, freed and opened  *)
(* again, with every way in which BSocket_Init can fail.                   *)
(***************************************************************************)
NextOpen ==
    \/ \E domain \in {BADDR_TYPE_IPV4, BADDR_TYPE_IPV6},
          t \in {BSOCKET_TYPE_STREAM, BSOCKET_TYPE_DGRAM},
          outcome \in InitOutcomes, pktinfo_ok \in BOOLEAN :
          BSocket_Init(domain, t, outcome, pktinfo_ok)
    \/ BSocket_Free
    \/ \E event \in SocketEvents : BSocket_AddEventHandler(event)
    \/ \E event \in SocketEvents : BSocket_EnableEvent(event)
    \/ \E max \in {-1} \cup 1..MaxRecvMax : BSocket_SetRecvMax(max)

SpecOpen == Init /\ [][NextOpen]_vars

(***************************************************************************)
(* A socket with READ and WRITE handlers that is freed from inside a       *)
(* handler or between two dispatches, and opened again.                    *)
(***************************************************************************)
NextClose ==
    \/ \E event \in {BSOCKET_READ, BSOCKET_WRITE} :
          BSocket_AddEventHandler(event)
    \/ \E event \in {BSOCKET_READ, BSOCKET_WRITE} :
          BSocket_EnableEvent(event)
    \/ \E event \in {BSOCKET_READ, BSOCKET_WRITE} :
          BSocket_DisableEvent(event)
    \/ \E events \in SUBSET {BREACTOR_READ, BREACTOR_WRITE},
          result \in SoErrors, ndebug \in BOOLEAN :
          file_descriptor_handler(events, result, ndebug)
    \/ HandlerReturn
    \/ BSocket_Free
    \/ \E domain \in {BADDR_TYPE_IPV4, BADDR_TYPE_IPV6},
          outcome \in InitOutcomes :
          BSocket_Init(domain, BSOCKET_TYPE_STREAM, outcome, FALSE)

SpecClose == Init /\ [][NextClose]_vars

(***************************************************************************)
(* Sockets of both types opened with either result of the pktinfo option,  *)
(* used with every call, and freed.                                        *)
(***************************************************************************)
NextPktinfo ==
    \/ \E domain \in {BADDR_TYPE_IPV4, BADDR_TYPE_IPV6},
          t \in {BSOCKET_TYPE_STREAM, BSOCKET_TYPE_DGRAM},
          outcome \in InitOutcomes, pktinfo_ok \in BOOLEAN :
          BSocket_Init(domain, t, outcome, pktinfo_ok)
    \/ BSocket_Free
    \/ NextIO

SpecPktinfo == Init /\ [][NextPktinfo]_vars

(***************************************************************************)
(* A socket of either type, with or without pktinfo, that sends and        *)
(* receives datagrams with every sample address, hint and control data.    *)
(***************************************************************************)
NextDgram ==
    \/ BSocket_SetRecvMax(-1)
    \/ \E oserr \in TransferErrors, bytes \in {MaxBytes}, winapi \in BOOLEAN,
          addr \in BAddr_Values, remote_sysaddr \in UninitSysAddrs :
          BSocket_SendTo(oserr, bytes, winapi, addr, remote_sysaddr)
    \/ \E oserr \in TransferErrors, bytes \in {MaxBytes}, winapi \in BOOLEAN,
          ioctl_ok \in BOOLEAN, addr \in BAddr_Values,
          local_addr \in BIPAddr_Values,
          remote_sysaddr \in UninitSysAddrs :
          BSocket_SendToFrom(oserr, bytes, winapi, ioctl_ok, addr, local_addr,
                             remote_sysaddr)
    \/ \E oserr \in TransferErrors, bytes \in {MaxBytes}, winapi \in BOOLEAN,
          name \in RecvNames :
          BSocket_RecvFrom(oserr, bytes, winapi, name)
    \/ \E oserr \in TransferErrors, bytes \in {MaxBytes}, winapi \in BOOLEAN,
          ioctl_ok \in BOOLEAN, name \in RecvNames :
          \E control \in RecvControls(winapi) :
             BSocket_RecvFromTo(oserr, bytes, winapi, ioctl_ok, name, control)

SpecDgram == InitIO /\ [][NextDgram]_vars

(***************************************************************************)
(* One file_open statement after another, each with every mode string of   *)
(* up to MaxModeLen characters, used by read, write, seek and close        *)
(* statements with every outcome of the library calls.                     *)
(***************************************************************************)
ModeChars == {"r", "w", "a", "+", "x"}
MaxModeLen == 3
ModeStrings == UNION {[1..n -> ModeChars] : n \in 0..MaxModeLen}

MaxFreads == 5
FreadResults == UNION {[1..n -> {"some", "fill"}] : n \in 0..MaxFreads}

MaxLen == 2

NextFile ==
    \/ \E failure \in {"none", "arity", "type", "nts"},
          mode \in ModeStrings, fopen_ok \in BOOLEAN :
          open_func_new(failure, mode, fopen_ok)
    \/ open_func_die
    \/ \E failure \in {"none", "arity", "alloc"}, rs \in FreadResults,
          realloc_ok \in BOOLEAN, eof \in BOOLEAN :
          read_func_new(failure, rs, realloc_ok, eof)
    \/ \E failure \in {"none", "arity", "type"}, length \in 0..MaxLen,
          ws \in [1..MaxLen -> 0..MaxLen] :
          write_func_new(failure, length, ws)
    \/ \E position_sign \in {-1, 1}, position_mag \in SeekMags,
          fseeko_ok \in BOOLEAN, sizeof_off_t \in OffSizes :
          seek_func_new("none", position_sign, position_mag, fseeko_ok,
                        sizeof_off_t)
    \* a statement with bad arguments fails before a position is computed
    \/ \E failure \in {"arity", "type", "position", "whence"},
          sizeof_off_t \in OffSizes :
          seek_func_new(failure, 1, <<0, 0, 0, 0>>, TRUE, sizeof_off_t)
    \/ \E arity_ok \in BOOLEAN, fclose_ok \in BOOLEAN :
          close_func_new(arity_ok, fclose_ok)

SpecFile == Init /\ [][NextFile]_vars

(***************************************************************************)
(* The event machine of one socket that stays alive, with the dispatcher   *)
(* of either build: file_descriptor_handler on POSIX, handle_handler on    *)
(* Windows.                                                                *)
(***************************************************************************)
WsaEvents == {FD_READ, FD_WRITE, FD_ACCEPT, FD_CONNECT, FD_CLOSE}

NextNotify ==
    \/ BSocket_AddGlobalEventHandler
    \/ BSocket_RemoveGlobalEventHandler
    \/ \E events \in SUBSET SocketEvents : BSocket_SetGlobalEvents(events)
    \/ \E event \in SocketEvents : BSocket_AddEventHandler(event)
    \/ \E event \in SocketEvents : BSocket_RemoveEventHandler(event)
    \/ \E event \in SocketEvents : BSocket_EnableEvent(event)
    \/ \E event \in SocketEvents : BSocket_DisableEvent(event)
    \/ BSocket_Connect("EINPROGRESS")
    \/ BSocket_GetConnectResult
    \/ \E events \in SUBSET {BREACTOR_READ, BREACTOR_WRITE},
          result \in {"0", "ECONNREFUSED"}, ndebug \in BOOLEAN :
          file_descriptor_handler(events, result, ndebug)
    \/ \E lNetworkEvents \in SUBSET WsaEvents,
          iErrorCode \in {"0", "WSAECONNREFUSED"}, ndebug \in BOOLEAN :
          handle_handler(lNetworkEvents, iErrorCode, ndebug)
    \/ HandlerReturn

SpecNotify == Init /\ [][NextNotify]_vars

TypeOK ==
    /\ alive \in BOOLEAN
    /\ waitEvents \subseteq SocketEvents
    /\ connecting_status \in 0..2
    /\ pc \in {"idle", "global", "aborted"} \cup SocketEvents
    /\ badvpn__dead \in {0, 1}

(***************************************************************************)
(* Properties.                                                             *)
(***************************************************************************)
Running == {"global"} \cup SocketEvents

\* the event families present in a mask
Families(w) ==
    (IF w \cap {BSOCKET_READ, BSOCKET_WRITE} # {} THEN {"READWRITE"} ELSE {})
    \cup (IF BSOCKET_ACCEPT \in w THEN {"ACCEPT"} ELSE {})
    \cup (IF BSOCKET_CONNECT \in w THEN {"CONNECT"} ELSE {})

\* the handlers invoked so far in the running dispatch
Invoked == {log[i].h : i \in DOMAIN log}

\* C1: waitEvents of a live socket never holds two of the families
\* {READ, WRITE}, {ACCEPT}, {CONNECT}, whatever mask set_global_events is
\* given.
C1_ExclusiveFamilies ==
    alive => Cardinality(Families(waitEvents)) <= 1

\* C2: every event enabled in waitEvents of a live socket has its per-event
\* handler installed, or a global handler is installed.
C2_EnabledHasHandler ==
    alive => \A e \in waitEvents :
                handlers[get_event_index(e)] \/ global_handler

\* an event is enabled in per-event mode while another slot is empty
C2_Witness ==
    /\ alive
    /\ ~global_handler
    /\ BSOCKET_WRITE \in waitEvents
    /\ handlers[HANDLER_WRITE]
    /\ ~handlers[HANDLER_READ]

\* C3: a global handler and a per-event handler are never installed on the
\* same live socket.
C3_HandlerModesExclusive ==
    alive => ~(global_handler /\ \E i \in 0..3 : handlers[i])

\* a global handler is installed and has events enabled
C3_Witness ==
    /\ alive
    /\ global_handler
    /\ waitEvents # {}

\* C4: once a running handler has freed the socket, the dispatch invokes no
\* further handler and uses no field of the socket: the running handler
\* stays the last one of the dispatch and the dispatch then ends.
C4_FreeEndsDispatch ==
    /\ [](~touched)
    /\ [][(freed /\ pc \in Running) =>
            /\ pc' \in {pc, "idle"}
            /\ pc' = pc => log' = log
            /\ fault' = "none"]_vars

\* the READ handler has freed the socket while WRITE was also returned
C4_Witness ==
    /\ freed
    /\ pc = BSOCKET_READ
    /\ BSOCKET_WRITE \in returned_events
    /\ badvpn__dead = 1

\* C5: without a global handler, the handlers of one notification are
\* invoked in the order READ, WRITE, ACCEPT, CONNECT, each at most once,
\* each for an event of the returned set and with that event as argument.
C5_FixedOrder ==
    (log # <<>> /\ log[1].h # "global") =>
        /\ \A i \in DOMAIN log :
              /\ log[i].h \in returned_events
              /\ log[i].ev = {log[i].h}
        /\ \A i, j \in DOMAIN log :
              i < j => get_event_index(log[i].h) < get_event_index(log[j].h)

\* READ and WRITE handlers were both invoked in one dispatch
C5_Witness ==
    /\ Len(log) = 2
    /\ log[1].h = BSOCKET_READ
    /\ log[2].h = BSOCKET_WRITE
    /\ pc = BSOCKET_WRITE

\* C6: a notification handled while a global handler is installed invokes
\* the global handler once, with the whole returned set, and no per-event
\* handler; when the global handler returns the dispatch is over.
C6_GlobalOnce ==
    /\ [](pc = "global" =>
            /\ Len(log) = 1
            /\ log[1].h = "global"
            /\ log[1].ev = returned_events)
    /\ [][/\ (/\ global_handler
              /\ fault' = "none"
              /\ pc = "idle"
              /\ \E events \in SUBSET {BREACTOR_READ, BREACTOR_WRITE},
                    result \in SoErrors, ndebug \in BOOLEAN :
                    file_descriptor_handler(events, result, ndebug))
             => pc' = "global"
          /\ (pc = "global" /\ pc' # pc) => pc' = "idle"
          /\ (pc \in SocketEvents) => pc' # "global"]_vars

\* the global handler runs with two returned events
C6_Witness ==
    /\ pc = "global"
    /\ Cardinality(returned_events) = 2
    /\ global_handler

\* C7: the handlers a dispatch invokes are those of the returned set
\* computed before the first handler ran; enable_event and disable_event
\* calls made by its handlers change neither that set nor who is invoked.
C7_DispatchSetFixed ==
    /\ [](pc \in SocketEvents =>
            Invoked = {e \in returned_events :
                          get_event_index(e) <= get_event_index(pc)})
    /\ [][/\ (pc \in Running /\ pc' \in Running) =>
                returned_events' = returned_events
          /\ (pc \in SocketEvents /\ pc' = "idle" /\ badvpn__dead = 0) =>
                \A e \in returned_events :
                    get_event_index(e) <= get_event_index(pc)]_vars

\* the WRITE handler is invoked though WRITE was disabled by then, in a
\* dispatch whose READ handler ran first
C7_Witness ==
    /\ pc = BSOCKET_WRITE
    /\ Len(log) = 2
    /\ BSOCKET_WRITE \notin log[2].wait
    /\ BSOCKET_WRITE \in log[1].wait

\* C8: every step that sets connecting_status to 2 starts with
\* connecting_status 1, with CONNECT enabled and the reactor watching for
\* writability.
C8_CompletedFromInProgress ==
    [][(connecting_status' = 2 /\ connecting_status # 2) =>
          /\ connecting_status = 1
          /\ BSOCKET_CONNECT \in waitEvents
          /\ BREACTOR_WRITE \in reactor_events]_vars

\* C9: when the CONNECT handler, or the global handler with CONNECT among
\* its events, is invoked, connecting_status is 2 and connecting_result is
\* the result of the attempt read at this notification.
C9_ResultBeforeHandler ==
    [][/\ (/\ pc = "idle"
           /\ BSOCKET_CONNECT \in returned_events'
           /\ pc' \in {"global", BSOCKET_CONNECT})
          => \A events \in SUBSET {BREACTOR_READ, BREACTOR_WRITE},
                result \in SoErrors, ndebug \in BOOLEAN :
                file_descriptor_handler(events, result, ndebug)
                => /\ connecting_status' = 2
                   /\ connecting_result' = connect_result_of(result)
       /\ (pc' = BSOCKET_CONNECT /\ pc # pc') => connecting_status' = 2]_vars

\* the CONNECT handler runs after a refused attempt
C9_Witness ==
    /\ pc = BSOCKET_CONNECT
    /\ connecting_status = 2
    /\ connecting_result = BSOCKET_ERROR_CONNECTION_REFUSED

\* C10: connect() returns 0 with error NONE and connecting_status 0 when
\* the OS connects at once, -1 with error IN_PROGRESS and connecting_status
\* 1 when the OS reports EINPROGRESS, -1 with error UNKNOWN and
\* connecting_status 0 otherwise; it never sets connecting_status to 2.
C10_ConnectOutcomes ==
    [][\A os \in ConnectOutcomes :
          BSocket_Connect(os) =>
             /\ connecting_status = 0
             /\ connecting_status' # 2
             /\ os = "OK" =>
                   ret' = 0 /\ error' = BSOCKET_ERROR_NONE
                            /\ connecting_status' = 0
             /\ os = "EINPROGRESS" =>
                   ret' = -1 /\ error' = BSOCKET_ERROR_IN_PROGRESS
                             /\ connecting_status' = 1
             /\ os = "EOTHER" =>
                   ret' = -1 /\ error' = BSOCKET_ERROR_UNKNOWN
                             /\ connecting_status' = 0]_vars

\* connect() has returned -1 with IN_PROGRESS
C10_Witness ==
    /\ alive
    /\ connecting_status = 1
    /\ error = BSOCKET_ERROR_IN_PROGRESS
    /\ ret = -1

(***************************************************************************)
(* C11: BSocket_GetConnectResult is called with connecting_status = 2,     *)
(* returns the connecting_result that the dispatcher stored when the       *)
(* attempt completed, and sets connecting_status to 0, so that it cannot   *)
(* be called again for the same attempt and BSocket_Connect is permitted;  *)
(* no other field of the socket changes.                                   *)
(***************************************************************************)
C11_GetConnectResult ==
    [][BSocket_GetConnectResult =>
          /\ connecting_status = 2
          /\ connect_ret' = connecting_result
          /\ connect_ret' \in {connect_result_of(e) : e \in SoErrors}
          /\ connecting_status' = 0
          /\ ~(CanCall /\ connecting_status = 2)'
          /\ UNCHANGED <<alive, type, have_pktinfo, global_handler, handlers,
                         waitEvents, connecting_result, error, recv_max,
                         recv_num, dead, reactor_events>>]_vars

C11_Witness ==
    /\ connect_ret = BSOCKET_ERROR_CONNECTION_REFUSED
    /\ connecting_result = BSOCKET_ERROR_CONNECTION_REFUSED
    /\ connecting_status = 0
    /\ alive

(***************************************************************************)
(* A client that makes non-blocking connection attempts on the socket,     *)
(* with a reactor that delivers writability whenever it is asked for it.   *)
(***************************************************************************)
DeliverWritable ==
    \E result \in SoErrors, ndebug \in BOOLEAN :
        file_descriptor_handler({BREACTOR_WRITE}, result, ndebug)

NextConnect ==
    \/ BSocket_AddEventHandler(BSOCKET_CONNECT)
    \/ BSocket_RemoveEventHandler(BSOCKET_CONNECT)
    \/ BSocket_EnableEvent(BSOCKET_CONNECT)
    \/ BSocket_DisableEvent(BSOCKET_CONNECT)
    \/ \E os \in ConnectOutcomes : BSocket_Connect(os)
    \/ BSocket_GetConnectResult
    \/ DeliverWritable
    \/ HandlerReturn
    \/ BSocket_Free

\* BReactor reports a ready descriptor to its handler in the next cycle
SpecConnectLive ==
    Init /\ [][NextConnect]_vars /\ WF_vars(DeliverWritable)

\* BSocket_Connect returned -1 with IN_PROGRESS; CONNECT handler installed
\* and enabled
ConnectPending ==
    /\ alive
    /\ connecting_status = 1
    /\ handlers[HANDLER_CONNECT]
    /\ BSOCKET_CONNECT \in waitEvents
    /\ pc = "idle"

(***************************************************************************)
(* C12: once BSocket_Connect has failed with IN_PROGRESS and a CONNECT     *)
(* handler is installed and enabled, a reactor that delivers writability   *)
(* leads to the CONNECT handler running with the attempt completed (unless *)
(* the client withdraws the event or frees the socket first), and after    *)
(* the handler has called BSocket_GetConnectResult connecting_status is 0. *)
(***************************************************************************)
C12_ConnectLiveness ==
    /\ ConnectPending ~>
          \/ pc = BSOCKET_CONNECT /\ connecting_status = 2
          \/ BSOCKET_CONNECT \notin waitEvents
          \/ ~alive
    /\ [](pc = BSOCKET_CONNECT /\ connect_ret # "UNSET"
             => connecting_status = 0)

C12_Witness ==
    /\ pc = BSOCKET_CONNECT
    /\ connect_ret = BSOCKET_ERROR_NONE
    /\ connecting_status = 0
    /\ error = BSOCKET_ERROR_IN_PROGRESS

\* a step of BSocket_Recv, BSocket_RecvFrom or BSocket_RecvFromTo: the only
\* steps that add to the count of receive calls
ReceiveStep == recv_calls' = recv_calls + 1

(***************************************************************************)
(* C13: with recv_max = N > 0, counting the receive calls (BSocket_Recv,   *)
(* BSocket_RecvFrom, BSocket_RecvFromTo in any mix) made since             *)
(* BSocket_SetRecvMax or the last dispatch, the first N reach the OS       *)
(* primitive and every later one returns -1 with error LATER, calls no     *)
(* primitive and leaves recv_num as it was.                                *)
(***************************************************************************)
C13_QuotaRefusesAfterN ==
    [][ReceiveStep /\ recv_max > 0 =>
          IF recv_calls < recv_max
            THEN /\ os_call' \in {"recv", "recvfrom", "recvmsg"}
                 /\ recv_num' = recv_num + 1
            ELSE /\ ret' = -1
                 /\ error' = BSOCKET_ERROR_LATER
                 /\ os_call' = "none"
                 /\ recv_num' = recv_num]_vars

C13_Witness ==
    /\ recv_max > 0
    /\ recv_calls > recv_max + 1
    /\ recv_num = recv_max
    /\ ret = -1
    /\ error = BSOCKET_ERROR_LATER
    /\ os_call = "none"

(***************************************************************************)
(* C14: the step that begins a dispatch leaves recv_num = 0 in the state   *)
(* in which the first handler runs, so a quota that was exhausted admits   *)
(* receive calls again in every dispatch.                                  *)
(***************************************************************************)
C14_DispatchResetsQuota ==
    [][pc = "idle" /\ pc' \in Running =>
          /\ recv_num' = 0
          /\ limit_recv(recv_max', recv_num').res = 0]_vars

C14_Witness ==
    /\ pc = BSOCKET_READ
    /\ Len(log) = 1
    /\ recv_max > 0
    /\ recv_num = 0
    /\ recv_calls = 0
    /\ ret = -1
    /\ error = BSOCKET_ERROR_LATER
    /\ os_call = "none"

(***************************************************************************)
(* C15: whenever recv_max > 0, 0 <= recv_num <= recv_max.                  *)
(***************************************************************************)
C15_CountWithinQuota ==
    recv_max > 0 => 0 <= recv_num /\ recv_num <= recv_max

C15_Witness ==
    /\ pc = BSOCKET_READ
    /\ recv_max > 0
    /\ recv_max < MaxRecvMax
    /\ recv_num = recv_max
    /\ os_call # "none"

(***************************************************************************)
(* C16: with recv_max = -1 every receive call reaches the OS primitive and *)
(* recv_num is not incremented, however many calls are made.               *)
(***************************************************************************)
C16_NoQuota ==
    [][ReceiveStep /\ recv_max = -1 =>
          /\ os_call' \in {"recv", "recvfrom", "recvmsg"}
          /\ recv_num' = recv_num]_vars

C16_Witness ==
    /\ pc = BSOCKET_READ
    /\ recv_max = -1
    /\ recv_calls = MaxRecvCalls
    /\ recv_num = 0
    /\ os_call = "recvmsg"
    /\ error = BSOCKET_ERROR_NONE

\* the error kinds a failing call can set, by the primitive it reached
FailureKinds(call) ==
    CASE call \in {"send", "sendto", "sendmsg", "recv", "recvfrom", "recvmsg"} ->
            {BSOCKET_ERROR_LATER, BSOCKET_ERROR_CONNECTION_REFUSED,
             BSOCKET_ERROR_CONNECTION_RESET, BSOCKET_ERROR_UNKNOWN}
      [] call = "bind" ->
            {BSOCKET_ERROR_ADDRESS_NOT_AVAILABLE, BSOCKET_ERROR_ADDRESS_IN_USE,
             BSOCKET_ERROR_ACCESS_DENIED, BSOCKET_ERROR_UNKNOWN}
      [] call = "listen" ->
            {BSOCKET_ERROR_ADDRESS_IN_USE, BSOCKET_ERROR_UNKNOWN}
      [] call = "accept" -> {BSOCKET_ERROR_LATER, BSOCKET_ERROR_UNKNOWN}
      [] call = "getpeername" -> {BSOCKET_ERROR_UNKNOWN}

(***************************************************************************)
(* C17: after each of BSocket_Connect, Bind, Listen, Accept, Send, Recv,   *)
(* SendTo, RecvFrom, SendToFrom, RecvFromTo and GetPeerName, the value     *)
(* returned is a success (>= 0) exactly when the error slot is NONE, and   *)
(* after a failure the error slot holds a kind that this call sets, not a  *)
(* value left by an earlier call.  (ret and error are written by these     *)
(* calls only, so the state after a call shows its outcome; a receive call *)
(* that the quota refused reaches no primitive and sets LATER, see C13.)   *)
(***************************************************************************)
C17_ErrorSlotMatchesReturn ==
    /\ [](/\ ret >= 0 <=> error = BSOCKET_ERROR_NONE
          /\ ret < 0 /\ os_call # "none" =>
                error \in FailureKinds(os_call))
    /\ [][connecting_status = 0 /\ os_call' = "none" =>
            \A os \in ConnectOutcomes :
               BSocket_Connect(os) /\ ret' < 0 =>
                  error' \in {BSOCKET_ERROR_IN_PROGRESS,
                              BSOCKET_ERROR_UNKNOWN}]_vars

C17_Witness ==
    /\ os_call = "getpeername"
    /\ ret = -1
    /\ error = BSOCKET_ERROR_UNKNOWN
    /\ recv_calls > recv_max

\* a send or receive call whose OS primitive reports oserr, looked up by
\* the primitive that the step reached
TransferCall(oserr, winapi) ==
    CASE os_call' = "send" -> BSocket_Send(oserr, 0, winapi)
      [] os_call' = "recv" -> BSocket_Recv(oserr, 0, winapi)
      [] os_call' = "sendto" ->
            \E remote_sysaddr \in UninitSysAddrs :
               \/ BSocket_SendTo(oserr, 0, winapi, IoAddr, remote_sysaddr)
               \/ \E ioctl_ok \in BOOLEAN :
                     BSocket_SendToFrom(oserr, 0, winapi, ioctl_ok, IoAddr,
                                        BIPAddr_InitInvalid, remote_sysaddr)
      [] os_call' = "recvfrom" ->
            \/ BSocket_RecvFrom(oserr, 0, winapi, SysAddrOf(IoAddr))
            \/ \E ioctl_ok \in BOOLEAN :
                  BSocket_RecvFromTo(oserr, 0, winapi, ioctl_ok,
                                     SysAddrOf(IoAddr), <<>>)
      [] os_call' = "sendmsg" ->
            \E ioctl_ok \in BOOLEAN, remote_sysaddr \in UninitSysAddrs :
               BSocket_SendToFrom(oserr, 0, winapi, ioctl_ok, IoAddr,
                                  BIPAddr_InitInvalid, remote_sysaddr)
      [] os_call' = "recvmsg" ->
            \E ioctl_ok \in BOOLEAN :
               BSocket_RecvFromTo(oserr, 0, winapi, ioctl_ok,
                                     SysAddrOf(IoAddr), <<>>)
      [] OTHER -> FALSE

\* the primitive of the call was reached and failed
TransferFailed ==
    /\ ret' = -1
    /\ os_call' \in {"send", "sendto", "sendmsg", "recv", "recvfrom", "recvmsg"}

(***************************************************************************)
(* C18: on either backend, a send or receive call whose primitive reports  *)
(* "connection reset by peer" fails with CONNECTION_REFUSED on a DGRAM     *)
(* socket and with CONNECTION_RESET on a STREAM socket.  The POSIX         *)
(* branches of the six calls do not look at bs->type: there a DGRAM        *)
(* socket fails with CONNECTION_RESET.                                     *)
(***************************************************************************)
C18_ResetRemappedOnBothBackends ==
    [][TransferFailed =>
          \A winapi \in BOOLEAN :
             TransferCall("ECONNRESET", winapi) =>
                error' = IF type = BSOCKET_TYPE_DGRAM
                           THEN BSOCKET_ERROR_CONNECTION_REFUSED
                           ELSE BSOCKET_ERROR_CONNECTION_RESET]_vars

(***************************************************************************)
(* C19: when BSocket_Accept returns, a descriptor that accept() returned   *)
(* is either owned by newsock (return 0, descriptor non-blocking and       *)
(* registered with the reactor, never closed) or closed exactly once and   *)
(* owned by nobody: with a null newsock (return 0, error NONE) and when    *)
(* set_nonblocking or init_event_backend fails (return -1, error UNKNOWN). *)
(***************************************************************************)
C19_AcceptedFdOwnedOrClosed ==
    [][os_call' = "accept" =>
          \A oserr \in AcceptErrors, newsock \in BOOLEAN,
             outcome \in AcceptOutcomes, addr \in BOOLEAN,
             name \in {SysAddrOf(IoAddr)} :
             BSocket_Accept(oserr, newsock, outcome, addr, name) =>
                /\ fdinfo'.created <=> oserr = "OK"
                /\ fdinfo'.created =>
                      IF newsock /\ outcome = "ok"
                        THEN /\ ret' = 0
                             /\ error' = BSOCKET_ERROR_NONE
                             /\ fdinfo'.owner = "newsock"
                             /\ fdinfo'.nonblocking
                             /\ fdinfo'.registered
                             /\ fdinfo'.closes = 0
                        ELSE /\ fdinfo'.owner = "none"
                             /\ ~fdinfo'.registered
                             /\ fdinfo'.closes = 1
                             /\ IF newsock
                                  THEN /\ ret' = -1
                                       /\ error' = BSOCKET_ERROR_UNKNOWN
                                  ELSE /\ ret' = 0
                                       /\ error' = BSOCKET_ERROR_NONE]_vars

\* an accepted descriptor was closed by a call that returned success
C19_Witness ==
    /\ os_call = "accept"
    /\ ret = 0
    /\ error = BSOCKET_ERROR_NONE
    /\ fdinfo.created
    /\ fdinfo.closes = 1
    /\ fdinfo.owner = "none"

(***************************************************************************)
(* C20: when BSocket_Init fails at set_nonblocking or at                   *)
(* init_event_backend, the descriptor it created is closed exactly once,   *)
(* is not registered with the reactor and the call returns -1; when        *)
(* socket() fails there is no descriptor and nothing is closed; the call   *)
(* returns 0 only with the descriptor non-blocking and registered.         *)
(***************************************************************************)
C20_InitRollsBack ==
    [][~alive =>
          \A domain \in {BADDR_TYPE_IPV4, BADDR_TYPE_IPV6},
             t \in {BSOCKET_TYPE_STREAM, BSOCKET_TYPE_DGRAM},
             outcome \in InitOutcomes, pktinfo_ok \in BOOLEAN :
             BSocket_Init(domain, t, outcome, pktinfo_ok) =>
                /\ outcome \in {"nonblock_fail", "backend_fail"} =>
                      /\ ret' = -1
                      /\ ~alive'
                      /\ fdinfo'.created
                      /\ fdinfo'.closes = 1
                      /\ ~fdinfo'.registered
                      /\ fdinfo'.owner = "none"
                /\ outcome = "socket_fail" =>
                      /\ ret' = -1
                      /\ ~alive'
                      /\ ~fdinfo'.created
                      /\ fdinfo'.closes = 0
                /\ ret' = 0 =>
                      /\ outcome = "ok"
                      /\ alive'
                      /\ fdinfo'.nonblocking
                      /\ fdinfo'.registered
                      /\ fdinfo'.closes = 0
                      /\ fdinfo'.owner = "bs"]_vars

\* the registration failed after the descriptor was set non-blocking
C20_Witness ==
    /\ ~alive
    /\ type = BSOCKET_TYPE_DGRAM
    /\ have_pktinfo
    /\ ret = -1
    /\ fdinfo.created
    /\ fdinfo.nonblocking
    /\ fdinfo.closes = 1
    /\ ~fdinfo.registered

(***************************************************************************)
(* C21: BSocket_Free takes the registration out of the reactor, then       *)
(* closes the descriptor, then marks the liveness token; once it has       *)
(* returned the reactor watches nothing for the socket and begins no       *)
(* dispatch for it, whether the call came from a handler or from outside a *)
(* dispatch.                                                               *)
(***************************************************************************)
C21_FreeUnregistersClosesKills ==
    /\ [](~alive => reactor_events = {})
    /\ [][BSocket_Free =>
            /\ fdinfo'.trace =
                  <<"free_event_backend", "close_socket", "DEAD_KILL">>
            /\ ~fdinfo'.registered
            /\ fdinfo'.closes = 1
            /\ reactor_events' = {}
            /\ ~alive'
            /\ (dead = "local" => badvpn__dead' = 1)]_vars
    /\ [][~alive /\ pc = "idle" => pc' = "idle"]_vars

\* freed by the READ handler while the reactor watched for both conditions
C21_Witness ==
    /\ ~alive
    /\ freed
    /\ pc = BSOCKET_READ
    /\ waitEvents = {BSOCKET_READ, BSOCKET_WRITE}
    /\ reactor_events = {}
    /\ badvpn__dead = 1
    /\ fdinfo.trace = <<"free_event_backend", "close_socket", "DEAD_KILL">>

(***************************************************************************)
(* C22: have_pktinfo is true only on a DGRAM socket whose pktinfo option   *)
(* call succeeded in BSocket_Init; it is false on every STREAM socket and  *)
(* on every socket BSocket_Accept produces, and only BSocket_Init changes  *)
(* it.                                                                     *)
(***************************************************************************)
C22_PktinfoOnlyDgram ==
    /\ [](have_pktinfo => type = BSOCKET_TYPE_DGRAM)
    /\ [](fdinfo.owner = "newsock" => ~fdinfo.have_pktinfo)
    /\ [][have_pktinfo' # have_pktinfo =>
            /\ ~alive
            /\ fdinfo'.created
            /\ fdinfo'.nonblocking]_vars
    /\ [][alive /\ alive' => have_pktinfo' = have_pktinfo]_vars

\* a DGRAM socket opened with the option has just received a datagram
C22_Witness ==
    /\ alive
    /\ have_pktinfo
    /\ type = BSOCKET_TYPE_DGRAM
    /\ os_call = "recvmsg"
    /\ ret = 1

(***************************************************************************)
(* C23 as stated: with have_pktinfo every BSocket_SendToFrom call submits  *)
(* a message whose control length is the space of the records built, one   *)
(* record for an IPv4 or IPv6 hint and none for no hint.  The Windows      *)
(* build without WSASendMsg sends the datagram by sendto with no control   *)
(* data at all.                                                            *)
(***************************************************************************)
C23_SendControlWithPktinfo ==
    [][have_pktinfo /\ os_call' \in {"sendto", "sendmsg"} =>
         \A oserr \in TransferErrors, winapi \in BOOLEAN, ioctl_ok \in BOOLEAN,
            local_addr \in BIPAddr_Values,
            remote_sysaddr \in UninitSysAddrs :
            BSocket_SendToFrom(oserr, MaxBytes, winapi, ioctl_ok,
                               msg'.addr, local_addr, remote_sysaddr) =>
               /\ os_call' = "sendmsg"
               /\ msg'.controllen = ControlSpace(msg'.control)
               /\ Len(msg'.control) =
                    IF local_addr.type = BADDR_TYPE_NONE THEN 0 ELSE 1]_vars

(***************************************************************************)
(* C23: when BSocket_SendToFrom reaches sendmsg (have_pktinfo, and on      *)
(* Windows WSASendMsg obtained) the control length it submits is the space *)
(* of the records it built: none and 0 for no hint; one (IPPROTO_IP,       *)
(* IP_PKTINFO) record of CMSG_SPACE(sizeof(struct in_pktinfo)) whose       *)
(* source field is the hint and whose other bytes are zero for an IPv4     *)
(* hint; one (IPPROTO_IPV6, IPV6_PKTINFO) record with ipi6_addr the hint   *)
(* and interface index 0 for an IPv6 hint.  Without have_pktinfo, and on   *)
(* Windows without WSASendMsg, the call is BSocket_SendTo on the same      *)
(* arguments.                                                              *)
(***************************************************************************)
C23_SendControl ==
    /\ [][os_call' = "sendmsg" =>
            LET hint == msg'.local_addr
                control == msg'.control
            IN
            /\ have_pktinfo
            /\ msg'.controllen = ControlSpace(control)
            /\ msg'.name = SysAddrOf(msg'.addr)
            /\ CASE hint.type = BADDR_TYPE_NONE ->
                      control = <<>> /\ msg'.controllen = 0
                 [] hint.type = BADDR_TYPE_IPV4 ->
                      \E winapi \in BOOLEAN :
                         /\ control =
                              <<cmsghdr(IPPROTO_IP, IP_PKTINFO,
                                  CMSG_LEN(sizeof_in_pktinfo(winapi)),
                                  [ipi_ifindex |-> 0,
                                   ipi_spec_dst |->
                                     IF winapi THEN Zero4 ELSE hint.ip,
                                   ipi_addr |->
                                     IF winapi THEN hint.ip ELSE Zero4])>>
                         /\ msg'.controllen =
                              CMSG_SPACE(sizeof_in_pktinfo(winapi))
                 [] hint.type = BADDR_TYPE_IPV6 ->
                      /\ control =
                           <<cmsghdr(IPPROTO_IPV6, IPV6_PKTINFO,
                               CMSG_LEN(sizeof_in6_pktinfo),
                               [ipi6_addr |-> hint.ip, ipi6_ifindex |-> 0])>>
                      /\ msg'.controllen = CMSG_SPACE(sizeof_in6_pktinfo)
                 [] OTHER -> FALSE]_vars
    /\ [][os_call' = "sendmsg" =>
            \A oserr \in TransferErrors, remote_sysaddr \in UninitSysAddrs :
               ~BSocket_SendToFrom(oserr, MaxBytes, TRUE, FALSE,
                                   msg'.addr, msg'.local_addr,
                                   remote_sysaddr)]_vars
    /\ [][os_call' = "sendto" =>
            /\ msg'.control = <<>>
            /\ msg'.controllen = 0
            /\ msg'.name = SysAddrOf(msg'.addr)
            /\ \E oserr \in TransferErrors, winapi \in BOOLEAN,
                  remote_sysaddr \in UninitSysAddrs :
                  BSocket_SendTo(oserr, MaxBytes, winapi, msg'.addr,
                                 remote_sysaddr)]_vars

\* sendmsg took a datagram with an IPv4 source hint
C23_Witness ==
    /\ have_pktinfo
    /\ os_call = "sendmsg"
    /\ ret = 1
    /\ msg.local_addr = BIPAddr_InitIPv4(<<10, 0, 0, 2>>)
    /\ Len(msg.control) = 1
    /\ msg.controllen = 32

(***************************************************************************)
(* C24: every successful BSocket_RecvFromTo reports as local address:      *)
(* none when the call goes through BSocket_RecvFrom (no have_pktinfo, or   *)
(* no WSARecvMsg) or when the control data holds no PKTINFO record;        *)
(* IPv4(ipi_addr) for an IP_PKTINFO record; IPv6(ipi6_addr) for an         *)
(* IPV6_PKTINFO record; records of another level or type change nothing.   *)
(***************************************************************************)
C24_LocalAddrFromPktinfo ==
    /\ [][os_call' = "recvmsg" /\ ret' >= 0 =>
            LET IsIn(cmsg) == /\ cmsg.cmsg_level = IPPROTO_IP
                              /\ cmsg.cmsg_type = IP_PKTINFO
                IsIn6(cmsg) == /\ cmsg.cmsg_level = IPPROTO_IPV6
                               /\ cmsg.cmsg_type = IPV6_PKTINFO
                pk == SelectSeq(msg'.control, IsIn)
                pk6 == SelectSeq(msg'.control, IsIn6)
            IN
            /\ have_pktinfo
            /\ Len(pk) + Len(pk6) <= 1
            /\ msg'.local_addr =
                  CASE pk # <<>> ->
                         [type |-> BADDR_TYPE_IPV4, ip |-> pk[1].data.ipi_addr]
                    [] pk6 # <<>> ->
                         [type |-> BADDR_TYPE_IPV6,
                          ip |-> pk6[1].data.ipi6_addr]
                    [] OTHER -> [type |-> BADDR_TYPE_NONE, ip |-> <<>>]]_vars
    /\ [][os_call' = "recvfrom" /\ ret' >= 0 =>
            \A winapi \in BOOLEAN, ioctl_ok \in BOOLEAN :
               BSocket_RecvFromTo("OK", ret', winapi, ioctl_ok,
                                  msg'.name, <<>>) =>
                  /\ ~have_pktinfo \/ (winapi /\ ~ioctl_ok)
                  /\ msg'.local_addr =
                       [type |-> BADDR_TYPE_NONE, ip |-> <<>>]]_vars

\* a datagram came with an IP_PKTINFO record whose two addresses differ
C24_Witness ==
    /\ have_pktinfo
    /\ os_call = "recvmsg"
    /\ ret = 1
    /\ Len(msg.control) = 1
    /\ msg.control[1].cmsg_level = IPPROTO_IP
    /\ msg.control[1].cmsg_type = IP_PKTINFO
    /\ msg.control[1].data.ipi_addr = <<10, 0, 0, 2>>
    /\ msg.control[1].data.ipi_spec_dst = <<127, 0, 0, 1>>
    /\ msg.local_addr = BIPAddr_InitIPv4(<<10, 0, 0, 2>>)

(***************************************************************************)
(* C25: for every IPv4 or IPv6 BAddr, addr_socket_to_sys gives a sockaddr  *)
(* of the family's length from which addr_sys_to_socket gives back the     *)
(* same type, ip and port; the IPv6 sockaddr has flowinfo and scope_id 0.  *)
(***************************************************************************)
C25_AddrRoundTrip ==
    os_call \in {"sendto", "sendmsg"} =>
       /\ msg.addr \in BAddr_Values
       /\ \A ndebug \in BOOLEAN :
             addr_sys_to_socket(Unwritten, msg.name, ndebug) = msg.addr
       /\ msg.addr.type = BADDR_TYPE_IPV4 =>
             /\ msg.name.sa_family = AF_INET
             /\ msg.name.len = sizeof_sockaddr_in
       /\ msg.addr.type = BADDR_TYPE_IPV6 =>
             /\ msg.name.sa_family = AF_INET6
             /\ msg.name.len = sizeof_sockaddr_in6
             /\ msg.name.flowinfo = 0
             /\ msg.name.scope_id = 0

\* an IPv6 address with a port went to sendto
C25_Witness ==
    /\ os_call = "sendto"
    /\ msg.addr = [type |-> BADDR_TYPE_IPV6, ip |-> Ipv6Other, port |-> 53]
    /\ msg.name.sa_family = AF_INET6
    /\ msg.name.port = 53
    /\ msg.name.addr = Ipv6Other

(***************************************************************************)
(* The datagram of a message sent with an IPv4 source hint to an IPv4      *)
(* destination, as the receiving host hands it to a socket with the        *)
(* pktinfo option: the name is the source address of the datagram, and the *)
(* IP_PKTINFO record carries the destination address of its header in      *)
(* ipi_addr (and, on POSIX, the local address it arrived at in             *)
(* ipi_spec_dst).                                                          *)
(***************************************************************************)
Delivered(sent, rcvd) ==
    /\ sent.local_addr.type = BADDR_TYPE_IPV4
    /\ sent.name.sa_family = AF_INET
    /\ rcvd.name.sa_family = AF_INET
    /\ rcvd.name.addr = sent.local_addr.ip
    /\ \E winapi \in BOOLEAN :
          rcvd.control =
            <<cmsghdr(IPPROTO_IP, IP_PKTINFO,
                      CMSG_LEN(sizeof_in_pktinfo(winapi)),
                      in_pktinfo(IF winapi THEN Zero4 ELSE sent.name.addr,
                                 sent.name.addr))>>

\* a successful sendmsg step followed by the recvmsg step that receives
\* its datagram
SentThenReceived ==
    /\ have_pktinfo
    /\ os_call = "sendmsg"
    /\ ret >= 0
    /\ os_call' = "recvmsg"
    /\ ret' >= 0
    /\ Delivered(msg, msg')

(***************************************************************************)
(* C26 as stated: a datagram sent by BSocket_SendToFrom with the hint      *)
(* IPv4(A) is reported by BSocket_RecvFromTo with local address IPv4(A).   *)
(* The receiver reports the address the datagram was sent to.              *)
(***************************************************************************)
C26_ReceiverSeesHint ==
    [][SentThenReceived => msg'.local_addr = msg.local_addr]_vars

(***************************************************************************)
(* C26: a datagram sent by BSocket_SendToFrom with the hint IPv4(A) to the *)
(* address D is reported by BSocket_RecvFromTo with local address IPv4(D), *)
(* the ipi_addr of the delivered record, and with A as the IP of the       *)
(* remote address; the local address is IPv4(A) when D = A.                *)
(***************************************************************************)
C26_ReceiverSeesDestination ==
    [][SentThenReceived =>
         /\ msg'.local_addr = BIPAddr_InitIPv4(msg.addr.ip)
         /\ msg'.addr.type = BADDR_TYPE_IPV4
         /\ msg'.addr.ip = msg.local_addr.ip
         /\ (msg.addr.ip = msg.local_addr.ip =>
               msg'.local_addr = msg.local_addr)]_vars

\* a datagram from 10.0.0.2 that was addressed to 127.0.0.1
C26_Witness ==
    /\ have_pktinfo
    /\ os_call = "recvmsg"
    /\ ret >= 0
    /\ msg.addr.type = BADDR_TYPE_IPV4
    /\ msg.addr.ip = <<10, 0, 0, 2>>
    /\ Len(msg.control) = 1
    /\ msg.control[1].cmsg_level = IPPROTO_IP
    /\ msg.control[1].cmsg_type = IP_PKTINFO
    /\ msg.control[1].data.ipi_addr = <<127, 0, 0, 1>>
    /\ msg.local_addr = BIPAddr_InitIPv4(<<127, 0, 0, 1>>)

\* a read, write or seek step with good arguments in which the library call
\* failed: the first fread gave nothing and feof is false, an fwrite wrote
\* nothing, or fseeko failed
IOErrorStep ==
    \/ /\ file'.stmt = "read"
       /\ read_func_new("none", <<>>, TRUE, FALSE)
    \/ /\ file'.stmt = "write"
       /\ \E length \in 1..MaxLen, ws \in [1..MaxLen -> 0..MaxLen] :
             /\ WriteLoop(length, ws, 1, <<>>).failed
             /\ write_func_new("none", length, ws)
    \/ /\ file'.stmt = "seek"
       /\ \E position_sign \in {-1, 1}, position_mag \in SeekMags,
             sizeof_off_t \in OffSizes :
             /\ seek_position(position_sign, position_mag, sizeof_off_t).ok
             /\ seek_func_new("none", position_sign, position_mag, FALSE,
                              sizeof_off_t)

(***************************************************************************)
(* C27: when read(), write() or seek() meets an I/O error on a file that   *)
(* is not in error state, the handle is closed and cleared (is_error      *)
(* becomes "true"), the file_open statement goes down and then up, and the *)
(* method statement neither goes up nor dies.                              *)
(***************************************************************************)
C27_IOErrorTriggers ==
    [][file.fh # "NULL" /\ file'.stmt \in {"read", "write", "seek"}
         /\ IOErrorStep =>
         LET n == Len(file'.trace) IN
         /\ file'.fh = "NULL"
         /\ open_func_getvar(file') = "true"
         /\ file'.fcloses = file.fcloses + 1
         /\ file'.inst = "up"
         /\ n >= 3
         /\ SubSeq(file'.trace, n - 2, n) = <<"fclose", "open.Down", "open.Up">>
         /\ \A i \in 1..n :
               file'.trace[i] \notin {"stmt.Up", "stmt.SetError", "stmt.Dead"}
         /\ \A i \in 1..(n - 3) :
               file'.trace[i] \notin {"fclose", "open.Down", "open.Up"}
         /\ file'.result = "none"]_vars

\* the second fwrite of a write() wrote nothing
C27_Witness ==
    /\ file.stmt = "write"
    /\ file.inst = "up"
    /\ file.fh = "NULL"
    /\ file.result = "none"
    /\ file.trace = <<"fwrite", "fwrite", "fclose", "open.Down", "open.Up">>

(***************************************************************************)
(* C28: close() on a file that is not in error state clears the handle     *)
(* after one fclose (is_error becomes "true"); when fclose succeeded the   *)
(* close statement goes up and the file_open statement is not toggled;     *)
(* when fclose failed the file_open statement goes down and up and the     *)
(* close statement does not go up.                                         *)
(***************************************************************************)
C28_CloseOutcomes ==
    [][file.fh # "NULL" /\ file'.stmt = "close" =>
         /\ close_func_new(TRUE, TRUE) =>
               /\ file'.trace = <<"fclose", "stmt.Up">>
               /\ file'.result = "up"
         /\ close_func_new(TRUE, FALSE) =>
               /\ file'.trace = <<"fclose", "open.Down", "open.Up">>
               /\ file'.result = "none"
         /\ close_func_new(TRUE, TRUE) \/ close_func_new(TRUE, FALSE) =>
               /\ file'.fh = "NULL"
               /\ open_func_getvar(file') = "true"
               /\ file'.fcloses = file.fcloses + 1
               /\ file'.inst = "up"]_vars

\* fclose failed in close()
C28_Witness ==
    /\ file.stmt = "close"
    /\ file.inst = "up"
    /\ file.fh = "NULL"
    /\ file.fcloses = 1
    /\ file.result = "none"
    /\ file.trace = <<"fclose", "open.Down", "open.Up">>

\* "r", "w", "a", "r+", "w+", "a+"
DocumentedModes ==
    {<<c>> : c \in {"r", "w", "a"}} \cup {<<c, "+">> : c \in {"r", "w", "a"}}

(***************************************************************************)
(* C29: of the strings of up to MaxModeLen characters over r, w, a, + and  *)
(* another character, parse_mode accepts exactly "r", "w", "a", "r+",      *)
(* "w+" and "a+", and then the buffer handed to fopen is the string        *)
(* followed by NUL; with any other string the file_open statement reports  *)
(* an error and dies without calling fopen.                                *)
(***************************************************************************)
C29_ModeAccepted ==
    /\ [](\A mode \in ModeStrings :
            /\ parse_mode(mode).res = 1 <=> mode \in DocumentedModes
            /\ parse_mode(mode).res = 1 =>
                  parse_mode(mode).out = mode \o <<NUL>>)
    /\ [](file.stmt = "file_open" =>
            /\ file.mode_arg \in ModeStrings
            /\ file.result = "up" =>
                  /\ file.mode_arg \in DocumentedModes
                  /\ file.mode = file.mode_arg \o <<NUL>>
                  /\ file.trace = <<"fopen", "open.Up">>
            /\ file.mode_arg \notin DocumentedModes =>
                  /\ file.result = "error"
                  /\ file.inst = "dead"
                  /\ file.fh = "NULL"
                  /\ file.trace = <<"open.SetError", "open.Dead">>)
    /\ [][file'.stmt = "file_open" /\ file'.mode_arg \in DocumentedModes =>
            \A fopen_ok \in BOOLEAN :
               open_func_new("none", file'.mode_arg, fopen_ok) =>
                  /\ file'.result = "up"
                  /\ file'.inst = "up"
                  /\ (file'.fh # "NULL") = fopen_ok]_vars

\* "a+" was accepted and the file opened
C29_Witness ==
    /\ file.stmt = "file_open"
    /\ file.mode_arg = <<"a", "+">>
    /\ file.mode = <<"a", "+", NUL>>
    /\ file.result = "up"
    /\ file.fh = "FILE"

\* the file_open statement is up without a handle
ErrorState(f) == f.inst = "up" /\ f.fh = "NULL"

(***************************************************************************)
(* C30: in error state (fopen failed, an I/O error was met, or close()     *)
(* ran) each read(), write(), seek() and close() statement reports an      *)
(* error and dies, calls no library function and does not toggle the       *)
(* file_open statement; the instance stays in error state until it dies.   *)
(***************************************************************************)
C30_ErrorStateRefuses ==
    /\ [][ErrorState(file)
            /\ file'.stmt \in {"read", "write", "seek", "close"} =>
            /\ file'.result = "error"
            /\ file'.trace = <<"stmt.SetError", "stmt.Dead">>
            /\ file'.fcloses = file.fcloses
            /\ ErrorState(file')]_vars
    /\ [][ErrorState(file) /\ file'.inst = "up" => ErrorState(file')]_vars

\* a seek() after a close() that succeeded
C30_Witness ==
    /\ ErrorState(file)
    /\ file.fcloses = 1
    /\ file.stmt = "seek"
    /\ file.result = "error"
    /\ file.trace = <<"stmt.SetError", "stmt.Dead">>

\* C31: the events a notification hands to call_handlers are enabled in
\* waitEvents when the notification is processed, and each of them is
\* backed by the notification: READ and ACCEPT by readable, WRITE and
\* CONNECT by writable readiness (on Windows by a network event that
\* get_wsa_events selects for it); every handler of the dispatch is invoked
\* for events that were enabled at that moment.
C31_ReturnedWithinWaitEvents ==
    /\ [](log # <<>> => \A i \in DOMAIN log : log[i].ev \subseteq log[1].wait)
    /\ [][(pc = "idle" /\ returned_events' # {}) =>
            /\ returned_events' \subseteq waitEvents
            /\ \A events \in SUBSET {BREACTOR_READ, BREACTOR_WRITE},
                  result \in {"0", "ECONNREFUSED"}, ndebug \in BOOLEAN :
                  \/ \A ev \in returned_events' :
                        get_reactor_fd_events({ev}) \cap events # {}
                  \/ ~file_descriptor_handler(events, result, ndebug)
            /\ \A lNetworkEvents \in SUBSET WsaEvents,
                  iErrorCode \in {"0", "WSAECONNREFUSED"},
                  ndebug \in BOOLEAN :
                  \/ \A ev \in returned_events' :
                        get_wsa_events({ev}) \cap lNetworkEvents # {}
                  \/ ~handle_handler(lNetworkEvents, iErrorCode,
                                     ndebug)]_vars

\* READ and WRITE are enabled and a notification that reported only WRITE
\* is being dispatched
C31_Witness ==
    /\ pc = BSOCKET_WRITE
    /\ returned_events = {BSOCKET_WRITE}
    /\ log[1].wait = {BSOCKET_READ, BSOCKET_WRITE}
    /\ log[1].ev = {BSOCKET_WRITE}

\* the POSIX mask registered with the reactor is the translation of the
\* events enabled after the step
MaskInSync ==
    /\ BREACTOR_READ \in reactor_events' <=>
          (BSOCKET_READ \in waitEvents' \/ BSOCKET_ACCEPT \in waitEvents')
    /\ BREACTOR_WRITE \in reactor_events' <=>
          (BSOCKET_WRITE \in waitEvents' \/ BSOCKET_CONNECT \in waitEvents')
    /\ reactor_events' \subseteq {BREACTOR_READ, BREACTOR_WRITE}

\* C32: right after every enable_event, disable_event and
\* set_global_events call, and after a remove_event_handler that disables
\* an enabled event, the mask registered with the reactor asks for
\* readable iff READ or ACCEPT is enabled and for writable iff WRITE or
\* CONNECT is enabled.
C32_MaskFollowsWaitEvents ==
    [][\/ MaskInSync
       \/ ~(\/ \E event \in SocketEvents : BSocket_EnableEvent(event)
            \/ \E event \in SocketEvents : BSocket_DisableEvent(event)
            \/ \E events \in SUBSET SocketEvents :
                  BSocket_SetGlobalEvents(events)
            \/ \E event \in waitEvents :
                  BSocket_RemoveEventHandler(event))]_vars

\* CONNECT alone is enabled by its per-event handler and the reactor
\* watches for writability only
C32_Witness ==
    /\ ~global_handler
    /\ handlers[HANDLER_CONNECT]
    /\ waitEvents = {BSOCKET_CONNECT}
    /\ reactor_events = {BREACTOR_WRITE}
    /\ pc = "idle"

\* C33: remove_global_handler empties waitEvents and leaves the mask
\* registered with the reactor as it was; while that mask is not empty and
\* no dispatch runs, the reactor can still notify file_descriptor_handler
\* of the events of the mask although waitEvents is empty.
C33_RemoveGlobalLeavesMask ==
    /\ [][BSocket_RemoveGlobalEventHandler =>
            /\ waitEvents' = {}
            /\ reactor_events' = reactor_events]_vars
    /\ []((/\ waitEvents = {}
           /\ reactor_events # {}
           /\ pc = "idle"
           /\ fault = "none") =>
             ENABLED file_descriptor_handler(reactor_events, "0", FALSE))

\* the global handler was removed while READ and WRITE were enabled: no
\* handler is left, waitEvents is empty and the reactor still watches both
C33_Witness ==
    /\ ~global_handler
    /\ \A i \in 0..3 : ~handlers[i]
    /\ waitEvents = {}
    /\ reactor_events = {BREACTOR_READ, BREACTOR_WRITE}
    /\ pc = "idle"
    /\ fault = "none"

\* 2^k as an uintmax_t
Pow2(k) ==
    [i \in 1..Limbs(sizeof_uintmax_t) |->
       IF i = (k \div 16) + 1 THEN 2 ^ (k % 16) ELSE 0]

\* the value of a decimal position with the given sign and magnitude lies
\* in the range of a signed type of the given size: the magnitude is below
\* 2^(bits - 1), or equal to it under a minus sign
InRange(position_sign, position_mag, bytes) ==
    \/ Gt(Pow2(8 * bytes - 1), position_mag)
    \/ position_sign < 0 /\ position_mag = Pow2(8 * bytes - 1)

\* the two's-complement value p is the value of sign and magnitude
SignedValue(p, position_sign, position_mag) ==
    IF IsNegative(p)
      THEN /\ position_sign < 0
           /\ Convert(Neg(p), FALSE, sizeof_uintmax_t) = position_mag
      ELSE /\ position_sign > 0 \/ IsZero(position_mag)
           /\ Convert(p, FALSE, sizeof_uintmax_t) = position_mag

\* C34: a seek() on an instance that is not in error state, with
\* well-formed arguments, calls fseeko iff the value of its position lies
\* in [off_t_min, off_t_max] ("-0" is 0) and then passes exactly that
\* value, computed without a cast that changes the value and without a
\* signed overflow; with a value outside the range the seek statement
\* alone fails: the file stays open, nothing is closed and the open
\* instance is not toggled down and up.
C34_SeekRange ==
    [][file'.stmt = "seek" =>
         \A position_sign \in {-1, 1}, position_mag \in SeekMags,
            fseeko_ok \in BOOLEAN, sizeof_off_t \in OffSizes :
            (/\ file.fh # "NULL"
             /\ seek_func_new("none", position_sign, position_mag,
                              fseeko_ok, sizeof_off_t)) =>
               LET in_range ==
                     InRange(position_sign, position_mag, sizeof_off_t)
               IN /\ in_range <=> file'.trace[1] = "fseeko"
                  /\ in_range =>
                        /\ Len(file'.position) = Limbs(sizeof_off_t)
                        /\ SignedValue(file'.position, position_sign,
                                       position_mag)
                  /\ ~seek_position(position_sign, position_mag,
                                    sizeof_off_t).overflow
                  /\ ~in_range =>
                        /\ file'.trace = <<"stmt.SetError", "stmt.Dead">>
                        /\ file'.result = "error"
                        /\ file'.fh = file.fh
                        /\ file'.fcloses = file.fcloses
                        /\ file'.inst = "up"]_vars

\* a seek to INT64_MIN, the most negative position of an 8-byte off_t,
\* went up
C34_Witness ==
    /\ file.stmt = "seek"
    /\ file.result = "up"
    /\ file.position = off_t_min(8)
    /\ file.trace = <<"fseeko", "stmt.Up">>

\* C35: while connecting_status is 2 and until BSocket_GetConnectResult
\* takes the result, no step changes connecting_result: neither a further
\* notification of the reactor nor any other call.
C35_ResultKeptUntilConsumed ==
    [][connecting_status = 2 =>
          connecting_result' = connecting_result]_vars

\* C36: in per-event mode the slot of every handler call_handlers is about
\* to invoke holds a handler: the ASSERT before the invocation never
\* fails, whatever the handlers invoked earlier in the dispatch did.
C36_InvokedSlotNonNull ==
    fault # "null_handler"

\* C37: every handler invocation, of the global handler or of a per-event
\* handler, carries at least one event that was enabled in waitEvents
\* when the notification was processed; no handler is invoked with an
\* empty event set.
C37_NonEmptyInvocation ==
    \A i \in DOMAIN log : log[i].ev \cap log[1].wait # {}

\* C38: on a live socket connecting_status changes only from 0 to 1 by
\* BSocket_Connect when connect() reports a pending attempt, from 1 to 2
\* by the dispatcher of a notification that reports CONNECT, and from 2
\* to 0 by BSocket_GetConnectResult; connecting_result changes only on the
\* second edge; every other step leaves both as they are.
C38_ConnectStateEdges ==
    [][(/\ alive /\ alive'
        /\ \/ connecting_status' # connecting_status
           \/ connecting_result' # connecting_result) =>
          \/ /\ connecting_status = 0
             /\ connecting_status' = 1
             /\ BSocket_Connect("EINPROGRESS")
          \/ /\ connecting_status = 1
             /\ connecting_status' = 2
             /\ pc = "idle"
             /\ BSOCKET_CONNECT \in waitEvents
             /\ BSOCKET_CONNECT \in returned_events'
          \/ /\ connecting_status = 2
             /\ connecting_status' = 0
             /\ BSocket_GetConnectResult]_vars

\* the stdio calls that use the file handle
FileOps == {"fread", "feof", "fwrite", "fseeko", "fclose"}

\* how often fclose appears in a trace
Fcloses(trace) == Cardinality({i \in DOMAIN trace : trace[i] = "fclose"})

\* C39: the handle of an instance whose fopen succeeded is given to fclose
\* exactly once: an open handle of a running instance was not closed yet,
\* the step that ends its use (an I/O error, close() or the death of the
\* instance) closes it once, later steps of the instance, its death
\* included, neither close it again nor use it, and within a step nothing
\* uses the handle after fclose.
C39_FcloseExactlyOnce ==
    /\ [](/\ file.fcloses <= 1
          /\ file.fh = "FILE" =>
                file.fcloses = (IF file.inst = "dead" THEN 1 ELSE 0))
    /\ [][file.inst = "up" =>
            /\ (file.fh = "FILE" /\ file'.fh = "NULL") =>
                  /\ file'.fcloses = 1
                  /\ Fcloses(file'.trace) = 1
            /\ (file.fh = "FILE" /\ file'.inst = "dead") =>
                  /\ file'.fcloses = 1
                  /\ Fcloses(file'.trace) = 1
            /\ (file.fh = "FILE" /\ file'.fh = "FILE"
                  /\ file'.inst = "up") =>
                  Fcloses(file'.trace) = 0
            /\ file.fh = "NULL" =>
                  /\ file'.fcloses = file.fcloses
                  /\ \A i \in DOMAIN file'.trace :
                        file'.trace[i] \notin FileOps
            /\ \A i, j \in DOMAIN file'.trace :
                  (i < j /\ file'.trace[i] = "fclose") =>
                      file'.trace[j] \notin FileOps]_vars

\* an instance whose file was closed before (by close() or by an I/O
\* error) has died: its death closed nothing and fclose ran once in all
C39_Witness ==
    /\ file.inst = "dead"
    /\ file.stmt = "die"
    /\ file.fh = "NULL"
    /\ file.fcloses = 1
    /\ file.trace = <<"open.Dead">>

====
